---- MODULE Spec2Model ----
(***************************************************************************)
(* Model of the persistence core of the repository:                        *)
(*   - the schema migration engine   (src/src/database/migrations.py)      *)
(*   - the repository layer          (src/src/database/repositories.py)    *)
(*   - the Redis cache-aside layer   (src/src/database/cache.py)           *)
(* Each subsystem has its own specification over its own variables; the    *)
(* variables of the other subsystems stay at their initial values.         *)
(***************************************************************************)
EXTENDS Integers, Sequences, FiniteSets, TLC

VARIABLES
    \* ---- the relational store, as the migration engine sees it
    tableExists,    \* the schema_migrations table exists
    ledger,         \* versions that have a row in schema_migrations (version is UNIQUE)
    effects,        \* versions whose change is committed in the schema
    \* ---- one invocation of run_all_migrations
    pc,             \* position in run_all_migrations and its callees
    applied,        \* the local list `applied` read at the start of the run
    idx,            \* index of the loop over `migrations`
    cur,            \* version handed to the apply in progress ("" when none)
    \* ---- history of the migration runs (observations, not program state)
    execCount,      \* per version: how often its change has been committed (saturating)
    attempted,      \* versions whose apply was entered in this run
    changeDone,     \* the apply in progress has committed its change
    changeFailed,   \* the apply in progress failed in its change step
    faulted,        \* a store operation failed during this run
    prevOk,         \* the previous run returned normally
    startLedger,    \* the ledger when this run started
    applyLedger,    \* the ledger when the apply in progress started
    failedAt,       \* index of the migration whose apply raised (0: none)
    \* ---- the entity tables, as the repository layer sees them
    store,          \* per entity kind: the rows, a function from the ids present
    nextId,         \* per entity kind: the next identifier to hand out
    now,            \* the clock read by datetime.utcnow()
    lastRet,        \* what the last repository call returned
    \* ---- the Redis backend and the RedisCache object in front of it
    client,         \* self.client is not None
    cache,          \* the keys the backend holds: key -> payload and expiry
    clock,          \* the backend's clock, in seconds
    lastOp,         \* the RedisCache call that has just returned
    hist,           \* the latest successful set, while nothing else touched its key
    \* ---- the CacheManager in front of the RedisCache object
    call,           \* the CacheManager call that has just returned
    \* ---- the cache_entries table, as CacheEntryRepository sees it
    entries,        \* the rows, a function from the ids present
    entryNextId,    \* the next identifier to hand out
    entryRet,       \* what the last CacheEntryRepository call returned
    entryHist,      \* the latest set_cache that stored a row
    \* ---- the entity tables with their constraints, as the store keeps them
    tables,         \* per table: the rows, a function from the ids present
    freshId,        \* per table: the next identifier uuid.uuid4 hands out
    tableRet,       \* what the last BaseRepository call returned
    given,          \* per table: the fields passed to create, for the rows not
                    \* written since
    \* ---- the initialization script: init_database.py
    boot,           \* the invocation of init_database in progress
    logRows,        \* rows of the system_logs table
    \* ---- the store's catalog, as check_database_health sees it
    catalog,        \* the names inspector.get_table_names() returns
    health,         \* what the last check_database_health call returned
    \* ---- reset_database
    reset,          \* the invocation of reset_database in progress
    \* ---- the system_logs table, as SystemLogRepository sees it
    logTable,       \* the rows, a function from the ids present
    logToday,       \* the day datetime.utcnow() falls on
    logRet,         \* what the last SystemLogRepository call returned
    \* ---- two sessions calling update_status on one record
    sess,           \* per session: where its call stands, its arguments, what it loaded
    raceBase,       \* the record as it was before the first of the two calls
    \* ---- the analyses of one user, as get_user_activity_summary counts them
    owned,          \* how many DataAnalysis rows the user has, and how many completed
    summary,        \* what the last get_user_activity_summary call returned
    \* ---- two invocations of run_all_migrations on one store
    runners,        \* per invocation: its position, its local `applied`, its exception
    ledgerRows,     \* the rows of schema_migrations, in the order of their INSERTs
    ledgerTable,    \* the schema_migrations table exists
    \* ---- history of the sets of each cache key (observations, not program state)
    latest,         \* per key: the most recent set that returned True
    \* ---- cleanup_old_data and the rows its three filters select
    stale,          \* per table: how many committed rows the filter of its step selects
    pass            \* the invocation of cleanup_old_data in progress

migVars == <<tableExists, ledger, effects, pc, applied, idx, cur, execCount,
             attempted, changeDone, changeFailed, faulted, prevOk, startLedger,
             applyLedger, failedAt>>

repoVars == <<store, nextId, now, lastRet>>

cacheVars == <<client, cache, clock, lastOp, hist>>

mgrVars == <<call>>

entryVars == <<entries, entryNextId, entryRet, entryHist>>

tableVars == <<tables, freshId, tableRet, given>>

startVars == <<boot, logRows>>

healthVars == <<catalog, health>>

logVars == <<logTable, logToday, logRet>>

raceVars == <<sess, raceBase>>

summaryVars == <<owned, summary>>

concVars == <<runners, ledgerRows, ledgerTable>>

latestVars == <<latest>>

cleanVars == <<stale, pass>>

vars == <<migVars, repoVars, cacheVars, mgrVars, entryVars, tableVars, startVars,
          healthVars, reset,
          logVars,
          raceVars,
          summaryVars,
          concVars,
          latestVars,
          cleanVars>>

\* What a step of one subsystem leaves alone: the variables of the others.
notMig ==
    <<repoVars, cacheVars, mgrVars, entryVars, tableVars, startVars, healthVars, reset,
    logVars,
    raceVars,
    summaryVars,
    concVars,
    latestVars,
    cleanVars>>
notRepo ==
    <<migVars, cacheVars, mgrVars, entryVars, tableVars, startVars, healthVars, reset,
    logVars,
    raceVars,
    summaryVars,
    concVars,
    latestVars,
    cleanVars>>
notCache ==
    <<migVars, repoVars, mgrVars, entryVars, tableVars, startVars, healthVars, reset,
    logVars,
    raceVars,
    summaryVars,
    concVars,
    latestVars,
    cleanVars>>
notMgr ==
    <<migVars, repoVars, entryVars, tableVars, startVars, healthVars, reset,
    logVars,
    raceVars,
    summaryVars,
    concVars,
    latestVars,
    cleanVars>>
notEntry ==
    <<migVars, cacheVars, mgrVars, tableVars, startVars, healthVars, reset,
    logVars,
    raceVars,
    summaryVars,
    concVars,
    latestVars,
    cleanVars>>
notTables ==
    <<migVars, repoVars, cacheVars, mgrVars, entryVars, startVars, healthVars, reset,
    logVars,
    raceVars,
    summaryVars,
    concVars,
    latestVars,
    cleanVars>>
notStart == <<migVars, repoVars, cacheVars, mgrVars, entryVars, tableVars,
              healthVars, reset,
    logVars,
    raceVars,
    summaryVars,
    concVars,
    latestVars,
    cleanVars>>
notLogs ==
    <<migVars, repoVars, cacheVars, mgrVars, entryVars, tableVars, startVars, healthVars, reset,
    raceVars,
    summaryVars,
    concVars,
    latestVars,
    cleanVars>>
\* What the two sessions of update_status leave alone, the entity tables apart.
notRace ==
    <<migVars, cacheVars, mgrVars, entryVars, tableVars, startVars, healthVars, reset,
      logVars,
    summaryVars,
    concVars,
    latestVars,
    cleanVars>>
notSummary ==
    <<migVars, repoVars, cacheVars, mgrVars, entryVars, tableVars, startVars, healthVars, reset, logVars, raceVars,
    concVars,
    latestVars,
    cleanVars>>
notConc ==
    <<migVars, repoVars, cacheVars, mgrVars, entryVars, tableVars, startVars, healthVars, reset, logVars, raceVars, summaryVars,
    latestVars,
    cleanVars>>
\* What the observed cache calls leave alone, the cache itself apart.
notLatest ==
    <<migVars, repoVars, mgrVars, entryVars, tableVars, startVars, healthVars, reset,
      logVars, raceVars, summaryVars, concVars,
    cleanVars>>
notClean ==
    <<migVars, repoVars, cacheVars, mgrVars, entryVars, tableVars, startVars, healthVars, reset, logVars, raceVars, summaryVars, concVars, latestVars>>
notHealth == <<migVars, repoVars, cacheVars, mgrVars, entryVars, tableVars,
               startVars, reset,
    logVars,
    raceVars,
    summaryVars,
    concVars,
    latestVars,
    cleanVars>>
\* What reset_database leaves alone, the migration engine it calls apart.
notReset == <<repoVars, cacheVars, mgrVars, entryVars, tableVars, startVars,
              healthVars,
    logVars,
    raceVars,
    summaryVars,
    concVars,
    latestVars,
    cleanVars>>
\* What setup_database, called by init_database, leaves alone.
notSetup ==
    <<repoVars, cacheVars, mgrVars, entryVars, tableVars, healthVars, reset,
    logVars,
    raceVars,
    summaryVars,
    concVars,
    latestVars,
    cleanVars>>

-----------------------------------------------------------------------------
(* Bounds *)

\* Saturation point of the commit counter execCount.
MaxExec == 2

\* Rows created per entity kind.
MaxRows == 1

\* Last instant of the clock.
MaxTime == 1

\* Last second of the cache backend's clock.
MaxClock == 2

\* Largest time-to-live a caller passes, in seconds.
MaxTtl == 2

\* Rows inserted into cache_entries.
MaxEntries == 3

\* Rows inserted into the users table.
MaxInserts == 2

\* Runs of the initialization script against the same store.
MaxStartups == 2

\* Rows inserted into system_logs.
MaxLogs == 2

\* Last day of the clock of the log table, and the largest `days` passed.
MaxDay == 3

\* DataAnalysis rows of the user whose summary is taken.
MaxAnalyses == 101

\* Rows of one table a cleanup pass finds to delete.
MaxStale == 2

-----------------------------------------------------------------------------
(* Migration engine: migrations.py *)

\* The hard-coded order of run_all_migrations.
Migrations == <<"001", "002", "003">>

Versions == {Migrations[i] : i \in 1..Len(Migrations)}

IndexOf(v) == CHOOSE i \in 1..Len(Migrations) : Migrations[i] = v

Bump(f, v) == [f EXCEPT ![v] = IF @ < MaxExec THEN @ + 1 ELSE @]

\* The versions are digit strings of one length: their collation order is the
\* order of their numbers, which is the order of Migrations.
VersionBefore(a, b) == IndexOf(a) < IndexOf(b)

RECURSIVE OrderByVersionDesc(_)
\* Mutant of OrderByVersion: ORDER BY version DESC.
OrderByVersionDesc(rows) ==
    IF rows = {} THEN <<>>
    ELSE LET last == CHOOSE v \in rows : \A w \in rows \ {v} : VersionBefore(w, v)
         IN  <<last>> \o OrderByVersionDesc(rows \ {last})

RECURSIVE OrderByVersion(_)
\* Line 38: ORDER BY version.
OrderByVersion(rows) ==
    IF rows = {} THEN <<>>
    ELSE LET first == CHOOSE v \in rows : \A w \in rows \ {v} : VersionBefore(v, w)
         IN  <<first>> \o OrderByVersion(rows \ {first})

\* get_applied_migrations, lines 34-42: the list of the SELECT, or [] when the
\* SELECT raises (the table is not there, the store does not answer).
AppliedList(ok) == IF ok /\ tableExists THEN OrderByVersion(ledger) ELSE <<>>

\* The versions of that list, which is all `version not in applied` looks at.
GetAppliedMigrations(ok) ==
    {AppliedList(ok)[i] : i \in DOMAIN AppliedList(ok)}

\* The INSERT of record_migration succeeds: the table is there, the version is new.
InsertAccepted(ok, v) == ok /\ tableExists /\ v \notin ledger

\* The change of a version can run on the current schema: the indexes and the
\* partitions are built on the tables of the initial schema.
ChangeRuns(ok, v) == ok /\ (v = "001" \/ "001" \in effects)

MigInit ==
    /\ tableExists = FALSE
    /\ ledger = {}
    /\ effects = {}
    /\ pc = "idle"
    /\ applied = {}
    /\ idx = 0
    /\ cur = ""
    /\ execCount = [v \in Versions |-> 0]
    /\ attempted = {}
    /\ changeDone = FALSE
    /\ changeFailed = FALSE
    /\ faulted = FALSE
    /\ prevOk = FALSE
    /\ startLedger = {}
    /\ applyLedger = {}
    /\ failedAt = 0

\* Mutant of Raise: the except clause logs the failure and the loop goes on.
RaiseSwallowed ==
    /\ pc' = "loop"
    /\ idx' = idx + 1
    /\ faulted' = TRUE
    /\ failedAt' = idx

\* An exception leaves run_all_migrations.
Raise ==
    /\ pc' = "raised"
    /\ idx' = idx
    /\ faulted' = TRUE
    /\ failedAt' = idx

\* run_all_migrations, line 139: create_migrations_table().
RunAllMigrations ==
    /\ pc \in {"idle", "done", "raised"}
    /\ prevOk' = (pc = "done")
    /\ startLedger' = ledger
    /\ applyLedger' = ledger
    /\ attempted' = {}
    /\ applied' = {}
    /\ cur' = ""
    /\ changeDone' = FALSE
    /\ changeFailed' = FALSE
    /\ \E ok \in BOOLEAN :
         IF ok
         THEN /\ tableExists' = TRUE
              /\ pc' = "get_applied"
              /\ idx' = 0
              /\ faulted' = FALSE
              /\ failedAt' = 0
         ELSE /\ tableExists' = tableExists
              /\ pc' = "raised"
              /\ idx' = 0
              /\ faulted' = TRUE
              /\ failedAt' = 0
    /\ UNCHANGED <<ledger, effects, execCount>>

\* run_all_migrations, line 142: applied = self.get_applied_migrations().
ReadApplied ==
    /\ pc = "get_applied"
    /\ \E ok \in BOOLEAN :
         /\ applied' = GetAppliedMigrations(ok)
         /\ faulted' = (faulted \/ ~ok)
    /\ pc' = "loop"
    /\ idx' = 1
    /\ UNCHANGED <<tableExists, ledger, effects, cur, execCount, attempted,
                   changeDone, changeFailed, prevOk, startLedger, applyLedger,
                   failedAt>>

\* Mutant of Pending: the ledger is not consulted.
PendingAlways(v) == v \in Versions

\* The test of line 153.
Pending(v) == v \notin applied

\* run_all_migrations, lines 152-160: one turn of the loop.
LoopStep ==
    /\ pc = "loop"
    /\ IF idx > Len(Migrations)
       THEN /\ pc' = "done"
            /\ UNCHANGED <<idx, cur, attempted, changeDone, changeFailed,
                           applyLedger>>
       ELSE IF Pending(Migrations[idx])
       THEN /\ cur' = Migrations[idx]
            /\ attempted' = attempted \cup {Migrations[idx]}
            /\ changeDone' = FALSE
            /\ changeFailed' = FALSE
            /\ applyLedger' = ledger
            /\ pc' = IF Migrations[idx] = "001" THEN "cis_table" ELSE "rm_execute"
            /\ idx' = idx
       ELSE /\ idx' = idx + 1
            /\ pc' = "loop"
            /\ UNCHANGED <<cur, attempted, changeDone, changeFailed, applyLedger>>
    /\ UNCHANGED <<tableExists, ledger, effects, applied, execCount, faulted,
                   prevOk, startLedger, failedAt>>

\* The apply in progress returns to the loop.
ApplyReturns ==
    /\ pc' = "loop"
    /\ idx' = idx + 1
    /\ UNCHANGED <<faulted, failedAt>>

\* create_initial_schema, line 67: create_migrations_table().
CisCreateTable ==
    /\ pc = "cis_table"
    /\ \E ok \in BOOLEAN :
         IF ok
         THEN /\ tableExists' = TRUE
              /\ pc' = "cis_create_all"
              /\ UNCHANGED <<idx, faulted, failedAt>>
         ELSE /\ tableExists' = tableExists
              /\ Raise
    /\ UNCHANGED <<ledger, effects, applied, cur, execCount, attempted,
                   changeDone, changeFailed, prevOk, startLedger, applyLedger>>

\* Mutant of CisCreateAll: a failure of create_all is swallowed and the
\* function goes on to record the version.
CisCreateAllSwallow ==
    /\ pc = "cis_create_all"
    /\ \E ok \in BOOLEAN :
         IF ChangeRuns(ok, cur)
         THEN /\ effects' = effects \cup {cur}
              /\ execCount' = Bump(execCount, cur)
              /\ changeDone' = TRUE
              /\ changeFailed' = FALSE
         ELSE /\ UNCHANGED <<effects, execCount, changeDone>>
              /\ changeFailed' = TRUE
    /\ pc' = "cis_check"
    /\ UNCHANGED <<idx, faulted, failedAt>>
    /\ UNCHANGED <<tableExists, ledger, applied, cur, attempted, prevOk,
                   startLedger, applyLedger>>

\* create_initial_schema, line 70: Base.metadata.create_all(bind=engine),
\* one transaction.
CisCreateAll ==
    /\ pc = "cis_create_all"
    /\ \E ok \in BOOLEAN :
         IF ChangeRuns(ok, cur)
         THEN /\ effects' = effects \cup {cur}
              /\ execCount' = Bump(execCount, cur)
              /\ changeDone' = TRUE
              /\ changeFailed' = FALSE
              /\ pc' = "cis_check"
              /\ UNCHANGED <<idx, faulted, failedAt>>
         ELSE /\ UNCHANGED <<effects, execCount, changeDone>>
              /\ changeFailed' = TRUE
              /\ Raise
    /\ UNCHANGED <<tableExists, ledger, applied, cur, attempted, prevOk,
                   startLedger, applyLedger>>

\* create_initial_schema, line 76: if "001" not in self.get_applied_migrations().
CisCheck ==
    /\ pc = "cis_check"
    /\ \E ok \in BOOLEAN :
         /\ faulted' = (faulted \/ ~ok)
         /\ IF cur \notin GetAppliedMigrations(ok)
            THEN /\ pc' = "record"
                 /\ UNCHANGED <<idx, failedAt>>
            ELSE /\ pc' = "loop"
                 /\ idx' = idx + 1
                 /\ UNCHANGED failedAt
    /\ UNCHANGED <<tableExists, ledger, effects, applied, cur, execCount,
                   attempted, changeDone, changeFailed, prevOk, startLedger,
                   applyLedger>>

\* run_migration, lines 56-58: connection.execute(text(sql)); connection.commit().
RunMigrationExecute ==
    /\ pc = "rm_execute"
    /\ \E ok \in BOOLEAN :
         IF ChangeRuns(ok, cur)
         THEN /\ effects' = effects \cup {cur}
              /\ execCount' = Bump(execCount, cur)
              /\ changeDone' = TRUE
              /\ changeFailed' = FALSE
              /\ pc' = "record"
              /\ UNCHANGED <<idx, faulted, failedAt>>
         ELSE /\ UNCHANGED <<effects, execCount, changeDone>>
              /\ changeFailed' = TRUE
              /\ Raise
    /\ UNCHANGED <<tableExists, ledger, applied, cur, attempted, prevOk,
                   startLedger, applyLedger>>

\* record_migration, lines 44-51, on a connection and in a transaction of its own.
RecordMigration ==
    /\ pc = "record"
    /\ \E ok \in BOOLEAN :
         IF InsertAccepted(ok, cur)
         THEN /\ ledger' = ledger \cup {cur}
              /\ ApplyReturns
         ELSE /\ ledger' = ledger
              /\ Raise
    /\ UNCHANGED <<tableExists, effects, applied, cur, execCount, attempted,
                   changeDone, changeFailed, prevOk, startLedger, applyLedger>>

MigNext ==
    \/ RunAllMigrations /\ UNCHANGED notMig
    \/ ReadApplied /\ UNCHANGED notMig
    \/ LoopStep /\ UNCHANGED notMig
    \/ CisCreateTable /\ UNCHANGED notMig
    \/ CisCreateAll /\ UNCHANGED notMig
    \/ CisCheck /\ UNCHANGED notMig
    \/ RunMigrationExecute /\ UNCHANGED notMig
    \/ RecordMigration /\ UNCHANGED notMig

-----------------------------------------------------------------------------
(* Repository layer: repositories.py, models.py *)

\* The two entities that carry a status: DataAnalysis and ToolGeneration.
Kinds == {"analysis", "tool"}

Ids == 1..MaxRows

\* The status vocabulary of models.py, lines 42 and 83.
Statuses == {"pending", "running", "generating", "completed", "failed"}

\* A keyword argument that is not passed / a column that is NULL.
NoStatus == "none"
NoProgress == -1
NoTime == -1

Progresses == {0, 1}

\* The model's column defaults at INSERT (models.py, lines 42-47 and 83-87).
NewRow(kind, status, t) ==
    [status       |-> IF status = NoStatus THEN "pending" ELSE status,
     progress     |-> IF kind = "analysis" THEN 0 ELSE NoProgress,
     created_at   |-> t,
     updated_at   |-> t,
     completed_at |-> NoTime]

\* The keyword arguments update_status builds (repositories.py, lines 99-103 and
\* 151-153); ToolGenerationRepository.update_status takes no progress.
UpdateStatusData(kind, status, progress, t) ==
    [status       |-> status,
     progress     |-> IF kind = "analysis" THEN progress ELSE NoProgress,
     updated_at   |-> t,
     completed_at |-> IF status = "completed" THEN t ELSE NoTime]

\* The loop of setattr in BaseRepository.update (lines 39-40).
SetAttrs(row, kw) ==
    [status       |-> IF kw.status = NoStatus THEN row.status ELSE kw.status,
     progress     |-> IF kw.progress = NoProgress THEN row.progress ELSE kw.progress,
     created_at   |-> row.created_at,
     updated_at   |-> IF kw.updated_at = NoTime THEN row.updated_at ELSE kw.updated_at,
     completed_at |-> IF kw.completed_at = NoTime THEN row.completed_at
                      ELSE kw.completed_at]

\* The row the UPDATE of db.commit() writes: a changed row whose updated_at was
\* not passed gets the column's onupdate value (models.py, lines 46 and 86).
Flushed(row, kw, t) ==
    LET new == SetAttrs(row, kw)
    IN  IF new # row /\ kw.updated_at = NoTime
        THEN [new EXCEPT !.updated_at = t]
        ELSE new

Present(kind, id) == id \in DOMAIN store[kind]

RepoInit ==
    /\ store = [k \in Kinds |-> <<>>]
    /\ nextId = [k \in Kinds |-> 1]
    /\ now = 0
    /\ lastRet = [op |-> "none", kind |-> "", id |-> 0, found |-> FALSE]

\* Time passes between two repository calls.
Tick ==
    /\ now < MaxTime
    /\ now' = now + 1
    /\ UNCHANGED <<store, nextId, lastRet>>

\* BaseRepository.create (lines 19-25); the caller may pass a status.
Create(kind, status) ==
    /\ nextId[kind] <= MaxRows
    /\ store' = [store EXCEPT ![kind] =
                    [i \in DOMAIN @ \cup {nextId[kind]} |->
                        IF i = nextId[kind] THEN NewRow(kind, status, now) ELSE @[i]]]
    /\ nextId' = [nextId EXCEPT ![kind] = @ + 1]
    /\ lastRet' = [op |-> "create", kind |-> kind, id |-> nextId[kind], found |-> TRUE]
    /\ UNCHANGED now

\* BaseRepository.get_by_id (lines 27-29).
GetById(kind, id) ==
    /\ lastRet' = [op |-> "get_by_id", kind |-> kind, id |-> id,
                   found |-> Present(kind, id)]
    /\ UNCHANGED <<store, nextId, now>>

\* BaseRepository.update (lines 35-43).
Update(op, kind, id, kw) ==
    /\ IF Present(kind, id)
       THEN store' = [store EXCEPT ![kind][id] = Flushed(@, kw, now)]
       ELSE store' = store
    /\ lastRet' = [op |-> op, kind |-> kind, id |-> id, found |-> Present(kind, id)]
    /\ UNCHANGED <<nextId, now>>

\* DataAnalysisRepository.update_status (lines 97-104) and
\* ToolGenerationRepository.update_status (lines 149-154).
UpdateStatus(kind, id, status, progress) ==
    Update("update_status", kind, id, UpdateStatusData(kind, status, progress, now))

\* BaseRepository.update called with a status and, for a DataAnalysis (the only
\* one of the two with a progress column), a progress keyword.
UpdateFields(kind, id, status, progress) ==
    Update("update", kind, id,
           [status |-> status,
            progress |-> IF kind = "analysis" THEN progress ELSE NoProgress,
            updated_at |-> NoTime, completed_at |-> NoTime])

\* BaseRepository.delete (lines 45-52).
Delete(kind, id) ==
    /\ IF Present(kind, id)
       THEN store' = [store EXCEPT ![kind] = [i \in DOMAIN @ \ {id} |-> @[i]]]
       ELSE store' = store
    /\ lastRet' = [op |-> "delete", kind |-> kind, id |-> id,
                   found |-> Present(kind, id)]
    /\ UNCHANGED <<nextId, now>>

RepoNext ==
    \/ Tick /\ UNCHANGED notRepo
    \/ \E k \in Kinds, s \in Statuses \cup {NoStatus} :
          Create(k, s) /\ UNCHANGED notRepo
    \/ \E k \in Kinds, i \in Ids : GetById(k, i) /\ UNCHANGED notRepo
    \/ \E k \in Kinds, i \in Ids, s \in Statuses, p \in Progresses \cup {NoProgress} :
          UpdateStatus(k, i, s, p) /\ UNCHANGED notRepo
    \/ \E k \in Kinds, i \in Ids, s \in Statuses \cup {NoStatus},
          p \in Progresses \cup {NoProgress} :
          UpdateFields(k, i, s, p) /\ UNCHANGED notRepo
    \/ \E k \in Kinds, i \in Ids : Delete(k, i) /\ UNCHANGED notRepo

\* The records as create and update_status alone make them.
StatusNext ==
    \/ Tick /\ UNCHANGED notRepo
    \/ \E k \in Kinds, s \in Statuses \cup {NoStatus} :
          Create(k, s) /\ UNCHANGED notRepo
    \/ \E k \in Kinds, i \in Ids, s \in Statuses, p \in Progresses \cup {NoProgress} :
          UpdateStatus(k, i, s, p) /\ UNCHANGED notRepo

-----------------------------------------------------------------------------
(* Values and their JSON form: json.dumps / json.loads as cache.py uses them *)

\* A Python value: a scalar (its text in a), or a container of scalars (items).
\* An item is [kt, k, vt, va]: key type and text (dict only), value type and text.
Scalar(t, a) == [t |-> t, a |-> a, items |-> <<>>]
Container(t, items) == [t |-> t, a |-> "", items |-> items]
Item(kt, k, vt, va) == [kt |-> kt, k |-> k, vt |-> vt, va |-> va]

PyNone == Scalar("none", "None")
PyTrue == Scalar("bool", "True")
PyFalse == Scalar("bool", "False")
PyInt(n) == Scalar("int", ToString(n))

\* The values callers hand to set: a falsy scalar, a list, a tuple, a
\* dict with a string key, a dict with an int key, a set object (json.dumps
\* raises TypeError) and a list that contains itself (json.dumps raises
\* ValueError).
CacheValues ==
    { PyInt(0),
      Container("list", <<Item("", "", "int", "1")>>),
      Container("tuple", <<Item("", "", "int", "1")>>),
      Container("dict", <<Item("str", "a", "int", "1")>>),
      Container("dict", <<Item("int", "1", "str", "a")>>),
      Container("set", <<>>),
      Container("cyclic", <<>>) }

\* The exception json.dumps(value) raises, "" when it returns.
DumpsError(v) ==
    CASE v.t = "set"    -> "TypeError"
      [] v.t = "cyclic" -> "ValueError"
      [] OTHER          -> ""

\* The JSON text of a scalar: type and literal.
JsonScalarType(t) ==
    CASE t = "none" -> "null"
      [] t = "bool" -> "bool"
      [] t = "int"  -> "num"
      [] OTHER      -> "str"

JsonScalarText(t, a) ==
    CASE t = "none" -> "null"
      [] t = "bool" -> (IF a = "True" THEN "true" ELSE "false")
      [] OTHER      -> a

\* json.dumps: the document written, as its syntax tree. A tuple is written as
\* an array; a dict key that is not a string is written as the string of its
\* text (skipkeys is False, so int, float, bool and None keys are coerced).
Dumps(v) ==
    IF v.t \in {"list", "tuple"}
    THEN [t |-> "arr", a |-> "",
          items |-> [i \in 1..Len(v.items) |->
                        Item("", "", JsonScalarType(v.items[i].vt),
                             JsonScalarText(v.items[i].vt, v.items[i].va))]]
    ELSE IF v.t = "dict"
    THEN [t |-> "obj", a |-> "",
          items |-> [i \in 1..Len(v.items) |->
                        Item("str", JsonScalarText(v.items[i].kt, v.items[i].k),
                             JsonScalarType(v.items[i].vt),
                             JsonScalarText(v.items[i].vt, v.items[i].va))]]
    ELSE [t |-> JsonScalarType(v.t), a |-> JsonScalarText(v.t, v.a), items |-> <<>>]

\* A payload that is not a JSON document (written by another client of the
\* shared backend).
Garbage == [t |-> "garbage", a |-> "{", items |-> <<>>]

\* json.loads raises JSONDecodeError on the payload.
LoadsError(j) == j.t = "garbage"

PyScalarType(t) ==
    CASE t = "null" -> "none"
      [] t = "bool" -> "bool"
      [] t = "num"  -> "int"
      [] OTHER      -> "str"

PyScalarText(t, a) ==
    CASE t = "null" -> "None"
      [] t = "bool" -> (IF a = "true" THEN "True" ELSE "False")
      [] OTHER      -> a

\* The members of a JSON object as json.loads keeps them: a repeated name keeps
\* its first position and its last value.
RECURSIVE LoadMembers(_, _)
LoadMembers(items, acc) ==
    IF items = <<>> THEN acc
    ELSE LET m == Item("str", Head(items).k, PyScalarType(Head(items).vt),
                       PyScalarText(Head(items).vt, Head(items).va))
             at == {i \in 1..Len(acc) : acc[i].k = m.k}
         IN  LoadMembers(Tail(items),
                         IF at = {} THEN Append(acc, m)
                         ELSE [acc EXCEPT ![CHOOSE i \in at : TRUE] = m])

\* json.loads of a document json.loads accepts.
Loads(j) ==
    IF j.t = "arr"
    THEN Container("list",
                   [i \in 1..Len(j.items) |->
                       Item("", "", PyScalarType(j.items[i].vt),
                            PyScalarText(j.items[i].vt, j.items[i].va))])
    ELSE IF j.t = "obj"
    THEN Container("dict", LoadMembers(j.items, <<>>))
    ELSE Scalar(PyScalarType(j.t), PyScalarText(j.t, j.a))

-----------------------------------------------------------------------------
(* Cache-aside layer: cache.py, class RedisCache *)

\* Cache keys: a namespace and an identifier, written "ns:id".
Key(ns, id) == [ns |-> ns, id |-> id]

Keys == {Key("user", "1"), Key("analysis_result", "1")}

\* Glob patterns of clear_pattern: a key itself, or every key of a namespace.
Patterns == Keys \cup {Key("analysis_result", "*")}

Matches(pattern, key) ==
    /\ pattern.ns = key.ns
    /\ (pattern.id = "*" \/ pattern.id = key.id)

Ttls == 0..MaxTtl

\* How the backend answers one call: "ok", the ping of is_connected fails, or
\* the ping succeeds and the command itself raises RedisError.
Conns == {"ok", "probe_fails", "op_fails"}

\* is_connected (lines 38-46).
IsConnected(conn) == client /\ conn # "probe_fails"

Live(k) == k \in DOMAIN cache

Without(ks) == [k \in DOMAIN cache \ ks |-> cache[k]]

With(k, payload, ttl) ==
    [x \in DOMAIN cache \cup {k} |->
        IF x = k THEN [payload |-> payload, expires_at |-> clock + ttl] ELSE cache[x]]

\* lastOp: the call, its key or pattern, the exception json.dumps raises on its
\* argument, what it returned, the exception that escaped it, whether the backend
\* answered it, and whether it changed the keys of the backend.
NoOp == [op |-> "none", key |-> Key("", ""), argErr |-> "", ret |-> PyNone,
         exc |-> "", served |-> TRUE, wrote |-> FALSE]

NoHist == [key |-> Key("", ""), v |-> PyNone, at |-> 0, ttl |-> 0, valid |-> FALSE]

\* What a call leaves behind: its return value or the exception that escaped it.
Returned(op, k, arg, conn, ret, wrote) ==
    [op |-> op, key |-> k, argErr |-> DumpsError(arg), ret |-> ret, exc |-> "",
     served |-> (client /\ conn = "ok"), wrote |-> wrote]

Escaped(op, k, arg, conn, exc) ==
    [op |-> op, key |-> k, argErr |-> DumpsError(arg), ret |-> PyNone, exc |-> exc,
     served |-> (client /\ conn = "ok"), wrote |-> FALSE]

\* The set of hist is void once something else touched one of the keys ks.
Touch(ks) == IF hist.valid /\ hist.key \in ks THEN NoHist ELSE hist

\* RedisCache.__init__ / _connect (lines 16-36): the client is kept when the
\* first ping succeeds, and is None otherwise.
CacheInit ==
    /\ client \in BOOLEAN
    /\ cache = <<>>
    /\ clock = 0
    /\ lastOp = NoOp
    /\ hist = NoHist

\* A second passes: the backend drops the keys whose time-to-live has elapsed.
ClockTick ==
    /\ clock < MaxClock
    /\ clock' = clock + 1
    /\ cache' = [k \in {x \in DOMAIN cache : cache[x].expires_at > clock + 1} |-> cache[k]]
    /\ lastOp' = NoOp
    /\ UNCHANGED <<client, hist>>

\* Another client of the shared backend stores a payload that is not JSON.
ForeignWrite(k) ==
    /\ cache' = With(k, Garbage, 1)
    /\ hist' = Touch({k})
    /\ lastOp' = NoOp
    /\ UNCHANGED <<client, clock>>

\* RedisCache.get (lines 48-60).
Get(k, conn) ==
    /\ lastOp' =
         IF ~IsConnected(conn) \/ conn = "op_fails" \/ ~Live(k)
         THEN Returned("get", k, PyNone, conn, PyNone, FALSE)
         ELSE IF LoadsError(cache[k].payload)
         THEN Returned("get", k, PyNone, conn, PyNone, FALSE)
         ELSE Returned("get", k, PyNone, conn, Loads(cache[k].payload), FALSE)
    /\ UNCHANGED <<client, cache, clock, hist>>

\* RedisCache.set (lines 62-72). SETEX refuses a time-to-live that is not
\* positive (a RedisError).
Set(k, v, ttl, conn) ==
    IF ~IsConnected(conn)
    THEN /\ lastOp' = Returned("set", k, v, conn, PyFalse, FALSE)
         /\ UNCHANGED <<client, cache, clock, hist>>
    ELSE IF DumpsError(v) = "ValueError"
    THEN /\ lastOp' = Escaped("set", k, v, conn, "ValueError")
         /\ UNCHANGED <<client, cache, clock, hist>>
    ELSE IF DumpsError(v) = "TypeError" \/ conn = "op_fails" \/ ttl <= 0
    THEN /\ lastOp' = Returned("set", k, v, conn, PyFalse, FALSE)
         /\ UNCHANGED <<client, cache, clock, hist>>
    ELSE /\ cache' = With(k, Dumps(v), ttl)
         /\ hist' = [key |-> k, v |-> v, at |-> clock, ttl |-> ttl, valid |-> TRUE]
         /\ lastOp' = Returned("set", k, v, conn, PyTrue, TRUE)
         /\ UNCHANGED <<client, clock>>

\* RedisCache.delete (lines 74-83).
CacheDelete(k, conn) ==
    IF ~IsConnected(conn) \/ conn = "op_fails"
    THEN /\ lastOp' = Returned("delete", k, PyNone, conn, PyFalse, FALSE)
         /\ UNCHANGED <<client, cache, clock, hist>>
    ELSE /\ cache' = Without({k})
         /\ hist' = Touch({k})
         /\ lastOp' = Returned("delete", k, PyNone, conn,
                               IF Live(k) THEN PyTrue ELSE PyFalse, Live(k))
         /\ UNCHANGED <<client, clock>>

\* RedisCache.exists (lines 85-94).
Exists(k, conn) ==
    /\ lastOp' =
         IF ~IsConnected(conn) \/ conn = "op_fails"
         THEN Returned("exists", k, PyNone, conn, PyFalse, FALSE)
         ELSE Returned("exists", k, PyNone, conn,
                       IF Live(k) THEN PyTrue ELSE PyFalse, FALSE)
    /\ UNCHANGED <<client, cache, clock, hist>>

\* RedisCache.expire (lines 96-105). EXPIRE with a time-to-live that is not
\* positive deletes the key.
Expire(k, ttl, conn) ==
    IF ~IsConnected(conn) \/ conn = "op_fails" \/ ~Live(k)
    THEN /\ lastOp' = Returned("expire", k, PyNone, conn, PyFalse, FALSE)
         /\ UNCHANGED <<client, cache, clock, hist>>
    ELSE /\ cache' = IF ttl <= 0 THEN Without({k})
                     ELSE With(k, cache[k].payload, ttl)
         /\ hist' = Touch({k})
         /\ lastOp' = Returned("expire", k, PyNone, conn, PyTrue, TRUE)
         /\ UNCHANGED <<client, clock>>

\* RedisCache.get_ttl (lines 107-116). TTL answers -2 for a key that is absent.
GetTtl(k, conn) ==
    /\ lastOp' =
         IF ~IsConnected(conn) \/ conn = "op_fails"
         THEN Returned("get_ttl", k, PyNone, conn, PyInt(-1), FALSE)
         ELSE Returned("get_ttl", k, PyNone, conn,
                       IF Live(k) THEN PyInt(cache[k].expires_at - clock)
                       ELSE PyInt(-2), FALSE)
    /\ UNCHANGED <<client, cache, clock, hist>>

\* Mutant of ClearPattern: only the first of the matching keys is deleted.
ClearPatternFirst(p, conn) ==
    IF ~IsConnected(conn) \/ conn = "op_fails"
    THEN /\ lastOp' = Returned("clear_pattern", p, PyNone, conn, PyInt(0), FALSE)
         /\ UNCHANGED <<client, cache, clock, hist>>
    ELSE LET found == {k \in DOMAIN cache : Matches(p, k)}
             keys == IF found = {} THEN {} ELSE {CHOOSE k \in found : TRUE}
         IN  /\ cache' = Without(keys)
             /\ hist' = Touch(keys)
             /\ lastOp' = Returned("clear_pattern", p, PyNone, conn,
                                   PyInt(Cardinality(keys)), keys # {})
             /\ UNCHANGED <<client, clock>>

\* RedisCache.clear_pattern (lines 118-130).
ClearPattern(p, conn) ==
    IF ~IsConnected(conn) \/ conn = "op_fails"
    THEN /\ lastOp' = Returned("clear_pattern", p, PyNone, conn, PyInt(0), FALSE)
         /\ UNCHANGED <<client, cache, clock, hist>>
    ELSE LET keys == {k \in DOMAIN cache : Matches(p, k)}
         IN  /\ cache' = Without(keys)
             /\ hist' = Touch(keys)
             /\ lastOp' = Returned("clear_pattern", p, PyNone, conn,
                                   PyInt(Cardinality(keys)), keys # {})
             /\ UNCHANGED <<client, clock>>

\* RedisCache.clear_all (lines 132-142).
ClearAll(conn) ==
    IF ~IsConnected(conn) \/ conn = "op_fails"
    THEN /\ lastOp' = Returned("clear_all", Key("", ""), PyNone, conn, PyFalse, FALSE)
         /\ UNCHANGED <<client, cache, clock, hist>>
    ELSE /\ cache' = <<>>
         /\ hist' = Touch(DOMAIN cache)
         /\ lastOp' = Returned("clear_all", Key("", ""), PyNone, conn, PyTrue,
                               cache # <<>>)
         /\ UNCHANGED <<client, clock>>

CacheNext ==
    \/ ClockTick /\ UNCHANGED notCache
    \/ \E k \in Keys : ForeignWrite(k) /\ UNCHANGED notCache
    \/ \E k \in Keys, c \in Conns : Get(k, c) /\ UNCHANGED notCache
    \/ \E k \in Keys, v \in CacheValues, t \in Ttls, c \in Conns :
          Set(k, v, t, c) /\ UNCHANGED notCache
    \/ \E k \in Keys, c \in Conns : CacheDelete(k, c) /\ UNCHANGED notCache
    \/ \E k \in Keys, c \in Conns : Exists(k, c) /\ UNCHANGED notCache
    \/ \E k \in Keys, t \in Ttls, c \in Conns :
          Expire(k, t, c) /\ UNCHANGED notCache
    \/ \E k \in Keys, c \in Conns : GetTtl(k, c) /\ UNCHANGED notCache
    \/ \E p \in Patterns, c \in Conns :
          ClearPattern(p, c) /\ UNCHANGED notCache
    \/ \E c \in Conns : ClearAll(c) /\ UNCHANGED notCache

-----------------------------------------------------------------------------
(* Cache manager: cache.py, class CacheManager, API responses *)

Endpoints == {"stats"}

\* The request parameters of an endpoint: a dict of string names (Dict[str, Any]),
\* written as its items in insertion order.
ParamNames == {"a", "b"}

ParamItems == {Item("str", n, "int", "1") : n \in ParamNames}

ParamMaps ==
    {Container("dict", <<>>)}
        \cup {Container("dict", <<x>>) : x \in ParamItems}
        \cup {Container("dict", xy) : xy \in {s \in ParamItems \X ParamItems :
                                                  s[1].k # s[2].k}}

\* The order of Python's str comparison on the parameter names.
NameRank(n) == CASE n = "a" -> 1 [] n = "b" -> 2 [] OTHER -> 0

\* sorted(dct.items()): the items of a dict by ascending key.
RECURSIVE SortedItems(_)
SortedItems(items) ==
    IF items = <<>> THEN <<>>
    ELSE LET m == CHOOSE i \in DOMAIN items :
                      \A j \in DOMAIN items : NameRank(items[i].k) <= NameRank(items[j].k)
         IN  <<items[m]>> \o SortedItems(SubSeq(items, 1, m - 1)
                                             \o SubSeq(items, m + 1, Len(items)))

\* json.dumps(params) as it would be without sort_keys: the items as inserted.
DumpsInserted(v) == Dumps(v)

\* json.dumps(params, sort_keys=True) (lines 219 and 226).
DumpsSorted(v) ==
    IF v.t = "dict" THEN Dumps([v EXCEPT !.items = SortedItems(@)]) ELSE Dumps(v)

\* The code of a token of the text, and str.encode() of a JSON object of the
\* model: the codes of the names and values of its members, in order.
TokenCode(a) == CASE a = "a" -> 97 [] a = "b" -> 98 [] a = "1" -> 49 [] OTHER -> 63

RECURSIVE Encode(_)
Encode(items) ==
    IF items = <<>> THEN <<>>
    ELSE <<TokenCode(Head(items).k), TokenCode(Head(items).va)>> \o Encode(Tail(items))

\* hashlib.md5(...).hexdigest(), scaled down to a 16-bit polynomial digest of
\* the bytes: a function of the text that depends on the order of its bytes.
DigestRange == 65521

RECURSIVE Md5(_, _)
Md5(bytes, h) ==
    IF bytes = <<>> THEN h
    ELSE Md5(Tail(bytes), (h * 31 + Head(bytes)) % DigestRange)

\* cache_key = f"api:{endpoint}:{md5 of the sorted parameters}" (lines 219-220
\* and 226-227).
ApiKey(endpoint, params) ==
    Key("api", ToString(<<endpoint, Md5(Encode(DumpsSorted(params).items), 7)>>))

Responses == {Container("dict", <<Item("str", "a", "int", "1")>>)}

\* call: the CacheManager call that has just returned, and the parameters of
\* the latest cache_api_response that stored its response.
NoCall == [op |-> "none", endpoint |-> "", params |-> Container("dict", <<>>),
           stored |-> Container("dict", <<>>), user |-> "", removed |-> {}]

MgrInit == call = NoCall

\* CacheManager.cache_api_response (lines 215-221).
CacheApiResponse(endpoint, params, response, ttl, conn) ==
    /\ Set(ApiKey(endpoint, params), response, ttl, conn)
    /\ call' = [call EXCEPT !.op = "cache_api_response",
                            !.endpoint = endpoint, !.params = params,
                            !.stored = IF lastOp'.ret = PyTrue THEN params ELSE @]

\* CacheManager.get_cached_api_response (lines 223-228).
GetCachedApiResponse(endpoint, params, conn) ==
    /\ Get(ApiKey(endpoint, params), conn)
    /\ call' = [call EXCEPT !.op = "get_cached_api_response",
                            !.endpoint = endpoint, !.params = params]

ApiNext ==
    \/ ClockTick /\ call' = [call EXCEPT !.op = "none"]
                 /\ UNCHANGED notMgr
    \/ \E e \in Endpoints, p \in ParamMaps, r \in Responses, t \in Ttls, c \in Conns :
          CacheApiResponse(e, p, r, t, c) /\ UNCHANGED notMgr
    \/ \E e \in Endpoints, p \in ParamMaps, c \in Conns :
          GetCachedApiResponse(e, p, c) /\ UNCHANGED notMgr

-----------------------------------------------------------------------------
(* Cache manager: cache.py, class CacheManager, entities of a user *)

Users == {"1", "2"}

\* The default time-to-live of each kind of entry, in seconds.
AnalysisResultTtl == 3600
ToolGenerationTtl == 3600
UserDataTtl == 1800
AnalysisListTtl == 300
SystemStatsTtl == 600
ApiResponseTtl == 300

\* What the callers cache: a dict of string names.
Payload == Container("dict", <<Item("str", "a", "int", "1")>>)

\* The patterns of invalidate_user_cache as a sweep limited to one analysis
\* would have them.
PatternsOfUserOnly(u) ==
    <<Key("user", u), Key("user_analyses", u), Key("analysis_result", u)>>

\* The patterns of invalidate_user_cache (lines 193-197).
PatternsOfUser(u) ==
    <<Key("user", u), Key("user_analyses", u), Key("analysis_result", "*")>>

\* Mutant of ClearedBy: the pattern is taken as a prefix that ends at the colon.
ClearedByNamespace(ks, p, conn) ==
    IF ~IsConnected(conn) \/ conn = "op_fails" THEN {}
    ELSE {k \in ks : p.ns = k.ns}

\* clear_pattern (lines 118-130) on a backend that holds the keys ks: the keys
\* it deletes, none when the backend does not answer.
ClearedBy(ks, p, conn) ==
    IF ~IsConnected(conn) \/ conn = "op_fails" THEN {}
    ELSE {k \in ks : Matches(p, k)}

\* The CacheManager methods that store one entry (lines 151-154, 161-164,
\* 171-174 and 181-184).
CacheEntity(op, k, ttl, conn) ==
    /\ Set(k, Payload, ttl, conn)
    /\ call' = [call EXCEPT !.op = op, !.user = "", !.removed = {}]

CacheAnalysisResult(id, conn) ==
    CacheEntity("cache_analysis_result", Key("analysis_result", id),
                AnalysisResultTtl, conn)

CacheToolGeneration(id, conn) ==
    CacheEntity("cache_tool_generation", Key("tool_generation", id),
                ToolGenerationTtl, conn)

CacheUserData(u, conn) ==
    CacheEntity("cache_user_data", Key("user", u), UserDataTtl, conn)

CacheAnalysisList(u, conn) ==
    CacheEntity("cache_analysis_list", Key("user_analyses", u), AnalysisListTtl, conn)

\* cache_system_stats (lines 205-208): the one key "system_stats".
CacheSystemStats(conn) ==
    CacheEntity("cache_system_stats", Key("system_stats", ""), SystemStatsTtl, conn)

\* cache_api_response (lines 215-221) of one endpoint without parameters.
CacheStatsResponse(conn) ==
    CacheApiResponse("stats", Container("dict", <<>>), Payload, ApiResponseTtl, conn)

\* CacheManager.invalidate_user_cache (lines 191-203): three clear_pattern calls,
\* each answered by the backend or not, and the sum of what they deleted.
InvalidateUserCache(u, conns) ==
    LET ps == PatternsOfUser(u)
        d1 == ClearedBy(DOMAIN cache, ps[1], conns[1])
        d2 == ClearedBy(DOMAIN cache \ d1, ps[2], conns[2])
        d3 == ClearedBy(DOMAIN cache \ (d1 \cup d2), ps[3], conns[3])
        total_deleted == Cardinality(d1) + Cardinality(d2) + Cardinality(d3)
    IN  /\ cache' = Without(d1 \cup d2 \cup d3)
        /\ hist' = Touch(d1 \cup d2 \cup d3)
        /\ lastOp' = [op |-> "invalidate_user_cache", key |-> ps[1], argErr |-> "",
                      ret |-> IF total_deleted > 0 THEN PyTrue ELSE PyFalse,
                      exc |-> "",
                      served |-> (client /\ \A i \in 1..3 : conns[i] = "ok"),
                      wrote |-> total_deleted > 0]
        /\ call' = [call EXCEPT !.op = "invalidate_user_cache", !.user = u,
                                !.removed = DOMAIN cache \ DOMAIN cache']
        /\ UNCHANGED <<client, clock>>

\* The patterns callers sweep with: one key, or every key of a namespace.
SweepPatterns == {Key("user", "1"), Key("user", "*"), Key("tool_generation", "*")}

\* RedisCache.clear_pattern, called on the manager's RedisCache object.
Sweep(p, conn) ==
    /\ ClearPattern(p, conn)
    /\ call' = [call EXCEPT !.op = "clear_pattern", !.user = "",
                            !.removed = DOMAIN cache \ DOMAIN cache']

UserNext ==
    \/ \E p \in SweepPatterns, c \in Conns : Sweep(p, c) /\ UNCHANGED notMgr
    \/ \E c \in Conns : CacheAnalysisResult("1", c) /\ UNCHANGED notMgr
    \/ \E c \in Conns : CacheToolGeneration("1", c) /\ UNCHANGED notMgr
    \/ \E u \in Users, c \in Conns :
          CacheUserData(u, c) /\ UNCHANGED notMgr
    \/ \E u \in Users, c \in Conns :
          CacheAnalysisList(u, c) /\ UNCHANGED notMgr
    \/ \E u \in Users, cs \in Conns \X Conns \X Conns :
          InvalidateUserCache(u, cs) /\ UNCHANGED notMgr

\* The entries of every kind the manager stores, and the invalidation of a user.
FrameNext ==
    \/ CacheAnalysisResult("1", "ok") /\ UNCHANGED notMgr
    \/ CacheToolGeneration("1", "ok") /\ UNCHANGED notMgr
    \/ CacheSystemStats("ok") /\ UNCHANGED notMgr
    \/ CacheStatsResponse("ok") /\ UNCHANGED notMgr
    \/ \E u \in Users : CacheUserData(u, "ok") /\ UNCHANGED notMgr
    \/ \E u \in Users : CacheAnalysisList(u, "ok") /\ UNCHANGED notMgr
    \/ \E u \in Users, cs \in Conns \X Conns \X Conns :
          InvalidateUserCache(u, cs) /\ UNCHANGED notMgr

-----------------------------------------------------------------------------
(* Durable cache: repositories.py, class CacheEntryRepository *)

EntryKeys == {"k1", "k2"}

EntryIds == 1..MaxEntries

\* The values callers store: dicts of string names (value: Dict[str, Any]).
EntryValues == {Container("dict", <<Item("str", "a", "int", "1")>>),
                Container("dict", <<Item("str", "b", "int", "1")>>)}

\* The value a JSON column holds and hands back (models.py, line 115).
JsonColumn(v) == Loads(Dumps(v))

\* The rows a query on cache_entries selects.
RowsWithKey(key) == {i \in DOMAIN entries : entries[i].key = key}

\* The filter of get_by_key (lines 200-205), at the instant t.
Unexpired(i, t) == entries[i].expires_at > t

\* Mutant of Expired: the filter of cleanup_expired with < in place of <=.
ExpiredBefore(i, t) == entries[i].expires_at < t

\* The filter of cleanup_expired (lines 214-216), at the instant t.
Expired(i, t) == entries[i].expires_at <= t

\* entryRet: the call, its key, the exception that escaped it, the ids of the
\* rows it returned and the count it returned.
NoEntryRet == [op |-> "none", key |-> "", exc |-> "", ids |-> {}, count |-> 0]

NoEntryHist == [id |-> 0, key |-> "", value |-> PyNone, at |-> 0, ttl |-> 0]

EntryInit ==
    /\ entries = <<>>
    /\ entryNextId = 1
    /\ entryRet = NoEntryRet
    /\ entryHist = NoEntryHist

\* Time passes between two calls.
EntryTick ==
    /\ Tick
    /\ entryRet' = NoEntryRet
    /\ UNCHANGED <<entries, entryNextId, entryHist>>

\* CacheEntryRepository.set_cache (lines 207-210): an INSERT through
\* BaseRepository.create; key is UNIQUE (models.py, line 114), so the INSERT of a
\* key that has a row, expired or not, raises IntegrityError at db.commit().
SetCache(key, value, ttl_seconds) ==
    /\ entryNextId <= MaxEntries
    /\ IF RowsWithKey(key) # {}
       THEN /\ entryRet' = [NoEntryRet EXCEPT !.op = "set_cache", !.key = key,
                                              !.exc = "IntegrityError"]
            /\ UNCHANGED <<entries, entryNextId, entryHist>>
       ELSE /\ entries' = [i \in DOMAIN entries \cup {entryNextId} |->
                              IF i = entryNextId
                              THEN [key |-> key, value |-> JsonColumn(value),
                                    expires_at |-> now + ttl_seconds,
                                    created_at |-> now]
                              ELSE entries[i]]
            /\ entryNextId' = entryNextId + 1
            /\ entryRet' = [NoEntryRet EXCEPT !.op = "set_cache", !.key = key,
                                              !.ids = {entryNextId}]
            /\ entryHist' = [id |-> entryNextId, key |-> key, value |-> value,
                             at |-> now, ttl |-> ttl_seconds]
    /\ UNCHANGED repoVars

\* CacheEntryRepository.get_by_key (lines 198-205).
GetByKey(key) ==
    /\ entryRet' = [NoEntryRet EXCEPT !.op = "get_by_key", !.key = key,
                       !.ids = {i \in RowsWithKey(key) : Unexpired(i, now)}]
    /\ UNCHANGED <<entries, entryNextId, entryHist, repoVars>>

\* BaseRepository.get_by_id (lines 27-29) on cache_entries.
EntryGetById(id) ==
    /\ entryRet' = [NoEntryRet EXCEPT !.op = "get_by_id",
                                      !.ids = {id} \cap DOMAIN entries]
    /\ UNCHANGED <<entries, entryNextId, entryHist, repoVars>>

\* BaseRepository.get_all (lines 31-33) on cache_entries, with the default
\* skip and limit: no more rows than the limit are stored.
EntryGetAll ==
    /\ entryRet' = [NoEntryRet EXCEPT !.op = "get_all", !.ids = DOMAIN entries]
    /\ UNCHANGED <<entries, entryNextId, entryHist, repoVars>>

\* CacheEntryRepository.cleanup_expired (lines 212-218).
CleanupExpired ==
    LET gone == {i \in DOMAIN entries : Expired(i, now)}
    IN  /\ entries' = [i \in DOMAIN entries \ gone |-> entries[i]]
        /\ entryRet' = [NoEntryRet EXCEPT !.op = "cleanup_expired",
                                          !.count = Cardinality(gone)]
        /\ UNCHANGED <<entryNextId, entryHist, repoVars>>

\* BaseRepository.delete (lines 45-52) on cache_entries.
EntryDelete(id) ==
    /\ entries' = [i \in DOMAIN entries \ {id} |-> entries[i]]
    /\ entryRet' = [NoEntryRet EXCEPT !.op = "delete",
                                      !.count = Cardinality({id} \cap DOMAIN entries)]
    /\ UNCHANGED <<entryNextId, entryHist, repoVars>>

EntryNext ==
    \/ EntryTick /\ UNCHANGED notEntry
    \/ \E k \in EntryKeys, v \in EntryValues, t \in Ttls :
          SetCache(k, v, t) /\ UNCHANGED notEntry
    \/ \E k \in EntryKeys : GetByKey(k) /\ UNCHANGED notEntry
    \/ \E i \in EntryIds : EntryGetById(i) /\ UNCHANGED notEntry
    \/ EntryGetAll /\ UNCHANGED notEntry
    \/ CleanupExpired /\ UNCHANGED notEntry
    \/ \E i \in EntryIds : EntryDelete(i) /\ UNCHANGED notEntry

-----------------------------------------------------------------------------
(* Entity tables and their constraints: models.py, BaseRepository *)

Tables == {"users", "data_analyses", "analysis_files", "tool_generations"}

RowIds == 1..MaxInserts

\* Rows inserted into a table: several users, one row of each other table.
InsertsOf(tab) == IF tab = "users" THEN MaxInserts ELSE 1

\* The table a row refers to and the column that holds the reference
\* (ForeignKey, models.py, lines 35, 59 and 76); "" for users.
ParentOf(tab) ==
    CASE tab \in {"data_analyses", "tool_generations"} -> "users"
      [] tab = "analysis_files"                       -> "data_analyses"
      [] OTHER                                        -> ""

FkColumn(tab) ==
    CASE tab \in {"data_analyses", "tool_generations"} -> "user_id"
      [] tab = "analysis_files"                       -> "data_analysis_id"
      [] OTHER                                        -> ""

\* The columns declared unique=True (models.py, lines 17-18).
UniqueColumns(tab) == IF tab = "users" THEN {"username", "email"} ELSE {}

\* The columns of type JSON (models.py, lines 40-41).
JsonColumns(tab) == IF tab = "data_analyses" THEN {"parameters"} ELSE {}

\* A reference the store has set to NULL.
NullRef == 0

\* The keyword arguments callers pass to create.
CreateFields(tab) ==
    CASE tab = "users" -> [username : {"u1", "u2"}, email : {"e1", "e2"}]
      [] tab = "data_analyses" -> [user_id : RowIds, parameters : {Payload}]
      [] tab = "analysis_files" -> [data_analysis_id : RowIds]
      [] OTHER -> [user_id : RowIds]

\* The keyword arguments callers pass to update.
UpdateFieldsOf(tab) ==
    CASE tab = "users" -> [username : {"u1", "u2"}] \cup [email : {"e1", "e2"}]
      [] tab = "analysis_files" -> [data_analysis_id : RowIds]
      [] OTHER -> [user_id : RowIds]

\* A row whose JSON columns are left NULL.
InsertedWithoutJson(tab, fields, t) ==
    [c \in DOMAIN fields \cup {"created_at"} |->
        IF c \notin DOMAIN fields THEN t
        ELSE IF c \in JsonColumns(tab) THEN PyNone
        ELSE fields[c]]

\* The row db.refresh reads back after the INSERT of create (lines 21-24): the
\* fields passed, a JSON column as the store hands it back, and the default of
\* created_at.
InsertedRow(tab, fields, t) ==
    [c \in DOMAIN fields \cup {"created_at"} |->
        IF c \notin DOMAIN fields THEN t
        ELSE IF c \in JsonColumns(tab) THEN JsonColumn(fields[c])
        ELSE fields[c]]

\* The row after the setattr loop of update (lines 39-40).
WithFields(row, fields) ==
    [c \in DOMAIN row |-> IF c \in DOMAIN fields THEN fields[c] ELSE row[c]]

\* A store that does not check UNIQUE.
UniqueUnchecked(tabs) == TRUE

\* UNIQUE: no two rows of a table agree on a unique column.
UniqueHolds(tabs) ==
    \A tab \in Tables : \A c \in UniqueColumns(tab) :
        \A i, j \in DOMAIN tabs[tab] : i # j => tabs[tab][i][c] # tabs[tab][j][c]

\* A store that does not check FOREIGN KEY and NOT NULL on the references.
FkUnchecked(tabs) == TRUE

\* FOREIGN KEY and nullable=False on the reference columns: every reference
\* names a row of the parent table.
FkHolds(tabs) ==
    \A tab \in Tables : ParentOf(tab) # "" =>
        \A i \in DOMAIN tabs[tab] : tabs[tab][i][FkColumn(tab)] \in DOMAIN tabs[ParentOf(tab)]

\* The id is found by get_by_id whatever the table holds.
FoundAlways(tab, id) == TRUE

\* db.query(self.model).filter(self.model.id == id).first() is not None.
Found(tab, id) == id \in DOMAIN tables[tab]

NoRet == [op |-> "none", tab |-> "", id |-> 0, found |-> FALSE, exc |-> ""]

TablesInit ==
    /\ tables = [tab \in Tables |-> <<>>]
    /\ freshId = [tab \in Tables |-> 1]
    /\ tableRet = NoRet
    /\ given = [tab \in Tables |-> <<>>]

\* db.commit(): the store takes the new rows when its constraints hold on them,
\* and otherwise rolls back and raises IntegrityError to the caller.
Commit(op, tab, id, tabs, gvn) ==
    IF UniqueHolds(tabs) /\ FkHolds(tabs)
    THEN /\ tables' = tabs
         /\ given' = gvn
         /\ tableRet' = [op |-> op, tab |-> tab, id |-> id, found |-> TRUE,
                         exc |-> ""]
    ELSE /\ tableRet' = [op |-> op, tab |-> tab, id |-> id, found |-> Found(tab, id),
                         exc |-> "IntegrityError"]
         /\ UNCHANGED <<tables, given>>

\* A function without the argument i.
Drop(f, i) == [x \in DOMAIN f \ {i} |-> f[x]]

\* BaseRepository.create (lines 19-25).
InsertRow(tab, fields) ==
    /\ freshId[tab] <= InsertsOf(tab)
    /\ LET id == freshId[tab]
       IN  Commit("create", tab, id,
                  [tables EXCEPT ![tab] = [i \in DOMAIN @ \cup {id} |->
                      IF i = id THEN InsertedRow(tab, fields, now) ELSE @[i]]],
                  [given EXCEPT ![tab] = [i \in DOMAIN @ \cup {id} |->
                      IF i = id THEN fields ELSE @[i]]])
    /\ freshId' = [freshId EXCEPT ![tab] = @ + 1]

\* BaseRepository.get_by_id (lines 27-29).
SelectRow(tab, id) ==
    /\ tableRet' = [op |-> "get_by_id", tab |-> tab, id |-> id,
                    found |-> Found(tab, id), exc |-> ""]
    /\ UNCHANGED <<tables, freshId, given>>

\* BaseRepository.update (lines 35-43).
UpdateRow(tab, id, fields) ==
    /\ IF Found(tab, id)
       THEN Commit("update", tab, id,
                   [tables EXCEPT ![tab][id] = WithFields(@, fields)],
                   [given EXCEPT ![tab] = Drop(@, id)])
       ELSE /\ tableRet' = [op |-> "update", tab |-> tab, id |-> id,
                            found |-> FALSE, exc |-> ""]
            /\ UNCHANGED <<tables, given>>
    /\ UNCHANGED freshId

\* The rows of the other tables once the row id of tab is deleted: the unit of
\* work sets the references of its loaded children to NULL (relationship
\* without cascade, models.py, lines 26-27 and 50-51).
Orphaned(tab, id) ==
    [t \in Tables |->
        IF ParentOf(t) = tab
        THEN [i \in DOMAIN tables[t] |->
                 IF tables[t][i][FkColumn(t)] = id
                 THEN [tables[t][i] EXCEPT ![FkColumn(t)] = NullRef]
                 ELSE tables[t][i]]
        ELSE IF t = tab THEN Drop(tables[t], id)
        ELSE tables[t]]

\* BaseRepository.delete (lines 45-52).
DeleteRow(tab, id) ==
    /\ IF Found(tab, id)
       THEN Commit("delete", tab, id, Orphaned(tab, id),
                   [given EXCEPT ![tab] = Drop(@, id)])
       ELSE /\ tableRet' = [op |-> "delete", tab |-> tab, id |-> id,
                            found |-> FALSE, exc |-> ""]
            /\ UNCHANGED <<tables, given>>
    /\ UNCHANGED freshId

TablesNext ==
    \/ \E tab \in Tables : \E fields \in CreateFields(tab) :
          InsertRow(tab, fields) /\ UNCHANGED notTables
    \/ \E tab \in Tables, id \in RowIds : SelectRow(tab, id) /\ UNCHANGED notTables
    \/ \E tab \in Tables, id \in RowIds : \E fields \in UpdateFieldsOf(tab) :
          UpdateRow(tab, id, fields) /\ UNCHANGED notTables
    \/ \E tab \in Tables, id \in RowIds : DeleteRow(tab, id) /\ UNCHANGED notTables

-----------------------------------------------------------------------------
(* Initialization script: init_database.py *)

\* check_database_connection(): TRUE when the store answers the probe.
CheckDatabaseConnection(ok) == ok

\* The six entity tables are there once create_all has committed.
RequiredTablesPresent == "001" \in effects

\* check_database_health(): the status it returns; a failure of the probe or
\* of the inspection is caught and reported as unhealthy.
CheckDatabaseHealth(ok) ==
    IF ok /\ RequiredTablesPresent THEN "healthy" ELSE "unhealthy"

\* An invocation of init_database that has not run its first statement.
Booting(run) ==
    [pc |-> "connection", result |-> "none", connected |-> FALSE,
     healthy |-> FALSE, cacheUp |-> FALSE, issued |-> FALSE,
     startRows |-> logRows, run |-> run]

StartInit ==
    /\ logRows = 0
    /\ boot = [pc |-> "connection", result |-> "none", connected |-> FALSE,
               healthy |-> FALSE, cacheUp |-> FALSE, issued |-> FALSE,
               startRows |-> 0, run |-> 1]

\* return False.
ReturnFalse == [boot EXCEPT !.pc = "returned", !.result = "failure"]

\* Lines 35-37: if not check_database_connection(): return False.
InitCheckConnection ==
    /\ boot.pc = "connection"
    /\ \E ok \in BOOLEAN :
         boot' = IF CheckDatabaseConnection(ok)
                 THEN [boot EXCEPT !.pc = "setup", !.connected = TRUE]
                 ELSE ReturnFalse
    /\ UNCHANGED logRows

\* Line 42: setup_database() enters run_all_migrations.
InitSetupDatabase ==
    /\ boot.pc = "setup"
    /\ RunAllMigrations
    /\ boot' = [boot EXCEPT !.pc = "in_setup"]
    /\ UNCHANGED logRows

\* setup_database() is running: init_database waits for it.
InSetup ==
    /\ boot.pc = "in_setup"
    /\ UNCHANGED startVars

\* Mutant of AfterSetup: the except clause logs the error and goes on.
AfterSetupSwallowed(p) == "health"

\* Lines 41-46: where init_database goes when setup_database has returned
\* (p = "done") or raised (p = "raised").
AfterSetup(p) == IF p = "raised" THEN "returned" ELSE "health"

\* Lines 41-46: setup_database() returns or raises.
InitSetupReturns ==
    /\ boot.pc = "in_setup"
    /\ pc \in {"done", "raised"}
    /\ boot' = IF AfterSetup(pc) = "returned"
               THEN ReturnFalse
               ELSE [boot EXCEPT !.pc = AfterSetup(pc)]
    /\ UNCHANGED logRows

\* Lines 50-53: health = check_database_health().
InitCheckHealth ==
    /\ boot.pc = "health"
    /\ \E ok \in BOOLEAN :
         boot' = IF CheckDatabaseHealth(ok) = "healthy"
                 THEN [boot EXCEPT !.pc = "cache", !.healthy = TRUE]
                 ELSE ReturnFalse
    /\ UNCHANGED logRows

\* Mutant of AfterCacheTest: a cache that does not answer ends the run.
AfterCacheTestFatal(up) == IF up THEN "log" ELSE "returned"

\* Lines 59-63: both branches of the test log a line and go on.
AfterCacheTest(up) == "log"

\* Lines 58-63: cache_manager.redis.is_connected() decides a log line only.
InitTestCache ==
    /\ boot.pc = "cache"
    /\ \E conn \in Conns :
         boot' = IF AfterCacheTest(IsConnected(conn)) = "returned"
                 THEN [ReturnFalse EXCEPT !.cacheUp = IsConnected(conn)]
                 ELSE [boot EXCEPT !.pc = AfterCacheTest(IsConnected(conn)),
                                   !.cacheUp = IsConnected(conn)]
    /\ UNCHANGED logRows

\* Lines 66-77 and log_system_event: a session is made and one row is added
\* to system_logs; a failure of either is logged and nothing else.
InitLogEvent ==
    /\ boot.pc = "log"
    /\ \E session \in BOOLEAN, ok \in BOOLEAN :
         /\ boot' = [boot EXCEPT !.pc = "return", !.issued = session]
         /\ logRows' = IF session /\ ok THEN logRows + 1 ELSE logRows

\* Line 80: return True.
InitReturnTrue ==
    /\ boot.pc = "return"
    /\ boot' = [boot EXCEPT !.pc = "returned", !.result = "success"]
    /\ UNCHANGED logRows

\* The script is started again, on the store as the last run left it.
InitAgain ==
    /\ boot.pc = "returned"
    /\ boot.run < MaxStartups
    /\ boot' = Booting(boot.run + 1)
    /\ UNCHANGED logRows

StartNext ==
    \/ InitCheckConnection /\ UNCHANGED notStart
    \/ InitSetupDatabase /\ UNCHANGED notSetup
    \/ InSetup /\ ReadApplied /\ UNCHANGED notSetup
    \/ InSetup /\ LoopStep /\ UNCHANGED notSetup
    \/ InSetup /\ CisCreateTable /\ UNCHANGED notSetup
    \/ InSetup /\ CisCreateAll /\ UNCHANGED notSetup
    \/ InSetup /\ CisCheck /\ UNCHANGED notSetup
    \/ InSetup /\ RunMigrationExecute /\ UNCHANGED notSetup
    \/ InSetup /\ RecordMigration /\ UNCHANGED notSetup
    \/ InitSetupReturns /\ UNCHANGED notStart
    \/ InitCheckHealth /\ UNCHANGED notStart
    \/ InitTestCache /\ UNCHANGED notStart
    \/ InitLogEvent /\ UNCHANGED notStart
    \/ InitReturnTrue /\ UNCHANGED notStart
    \/ InitAgain /\ UNCHANGED notStart

-----------------------------------------------------------------------------
(* Health check: migrations.py, check_database_health *)

\* Lines 188-191: required_tables.
RequiredTables ==
    {"users", "data_analyses", "analysis_files", "tool_generations",
     "system_logs", "cache_entries"}

\* The table of create_migrations_table (line 19).
MigrationsTable == "schema_migrations"

NoHealth ==
    [op |-> "none", reachable |-> FALSE, raised |-> FALSE, status |-> "",
     missing |-> {}, tables |-> {}]

\* Lines 178-213: the dictionary check_database_health returns when the store
\* answers (ok) or does not; the except clause turns every failure into an
\* unhealthy report with no tables.
HealthReport(ok, tabs) ==
    IF ~ok
    THEN [op |-> "check", reachable |-> FALSE, raised |-> FALSE,
          status |-> "unhealthy", missing |-> {}, tables |-> {}]
    ELSE IF RequiredTables \ tabs # {}
    THEN [op |-> "check", reachable |-> TRUE, raised |-> FALSE,
          status |-> "unhealthy", missing |-> RequiredTables \ tabs,
          tables |-> tabs]
    ELSE [op |-> "check", reachable |-> TRUE, raised |-> FALSE,
          status |-> "healthy", missing |-> {}, tables |-> tabs]

HealthInit ==
    /\ catalog = {}
    /\ health = NoHealth

\* check_database_health().
CheckHealth ==
    /\ \E ok \in BOOLEAN : health' = HealthReport(ok, catalog)
    /\ UNCHANGED catalog

HealthNext == CheckHealth /\ UNCHANGED notHealth

-----------------------------------------------------------------------------
(* reset_database: migrations.py *)

ResetInit == reset = [pc |-> "none", wasMigrated |-> FALSE]

\* No invocation of reset_database is between its first and last statement.
ResetIdle == reset.pc \in {"none", "completed", "raised"}

\* Line 172: Base.metadata.drop_all(bind=engine) drops the tables of the
\* models, and with them their indexes and the partitions of system_logs;
\* schema_migrations is not a table of Base.metadata and keeps its rows.
ResetDropAll ==
    /\ ResetIdle
    /\ pc \in {"idle", "done", "raised"}
    /\ \E ok \in BOOLEAN :
         IF ok
         THEN /\ effects' = {}
              /\ reset' = [pc |-> "dropped",
                           wasMigrated |-> (ledger = Versions /\ effects = Versions)]
         ELSE /\ effects' = effects
              /\ reset' = [reset EXCEPT !.pc = "raised"]
    /\ UNCHANGED <<tableExists, ledger, pc, applied, idx, cur, execCount,
                   attempted, changeDone, changeFailed, faulted, prevOk,
                   startLedger, applyLedger, failedAt>>

\* Line 175: setup_database() enters run_all_migrations.
ResetSetupDatabase ==
    /\ reset.pc = "dropped"
    /\ RunAllMigrations
    /\ reset' = [reset EXCEPT !.pc = "in_setup"]

\* run_all_migrations is running, called by reset_database or on its own.
Migrating ==
    /\ reset.pc \in {"none", "in_setup"}
    /\ UNCHANGED reset

\* Line 175: setup_database() returns or raises, and so does reset_database.
ResetReturns ==
    /\ reset.pc = "in_setup"
    /\ pc \in {"done", "raised"}
    /\ reset' = [reset EXCEPT !.pc = IF pc = "done" THEN "completed" ELSE "raised"]
    /\ UNCHANGED migVars

ResetNext ==
    \/ reset.pc = "none" /\ RunAllMigrations /\ UNCHANGED reset /\ UNCHANGED notReset
    \/ Migrating /\ ReadApplied /\ UNCHANGED notReset
    \/ Migrating /\ LoopStep /\ UNCHANGED notReset
    \/ Migrating /\ CisCreateTable /\ UNCHANGED notReset
    \/ Migrating /\ CisCreateAll /\ UNCHANGED notReset
    \/ Migrating /\ CisCheck /\ UNCHANGED notReset
    \/ Migrating /\ RunMigrationExecute /\ UNCHANGED notReset
    \/ Migrating /\ RecordMigration /\ UNCHANGED notReset
    \/ ResetDropAll /\ UNCHANGED notReset
    \/ ResetSetupDatabase /\ UNCHANGED notReset
    \/ ResetReturns /\ UNCHANGED notReset

-----------------------------------------------------------------------------
(* System logs: repositories.py, SystemLogRepository *)

NoLogRet ==
    [op |-> "none", days |-> 0, count |-> 0, exc |-> "", at |-> 0, before |-> <<>>,
     skip |-> 0, limit |-> 0, rows |-> <<>>]

LogInit ==
    /\ logTable = <<>>
    /\ logToday = 0
    /\ logRet = NoLogRet

\* A day passes.
LogTick ==
    /\ logToday < MaxDay
    /\ logToday' = logToday + 1
    /\ logRet' = NoLogRet
    /\ UNCHANGED logTable

\* system_log_repo.create: created_at takes its default, datetime.utcnow
\* (models.py, line 103). The rows are numbered as they are created: of two
\* rows of the table, the one with the smaller number was created first.
LogCreate ==
    /\ \A i \in DOMAIN logTable : i < MaxLogs
    /\ LET id == CHOOSE i \in 1..MaxLogs : i \notin DOMAIN logTable
                               /\ \A j \in DOMAIN logTable : j < i
       IN  logTable' = [i \in DOMAIN logTable \cup {id} |->
                           IF i = id THEN [created_at |-> logToday] ELSE logTable[i]]
    /\ logRet' = [NoLogRet EXCEPT !.op = "create"]
    /\ UNCHANGED logToday

\* Mutant of OlderThan: the cutoff day itself is deleted too.
OlderThanOrAt(row, cutoff_date) == row.created_at <= cutoff_date

\* Line 186: SystemLog.created_at < cutoff_date.
OlderThan(row, cutoff_date) == row.created_at < cutoff_date

\* cleanup_old_logs, lines 182-189: one DELETE and its commit; a failure of
\* either leaves the table as it was and reaches the caller.
CleanupOldLogs(days) ==
    LET cutoff_date == logToday - days
        gone == {i \in DOMAIN logTable : OlderThan(logTable[i], cutoff_date)}
    IN  /\ \E ok \in BOOLEAN :
              IF ok
              THEN /\ logTable' = [i \in DOMAIN logTable \ gone |-> logTable[i]]
                   /\ logRet' = [NoLogRet EXCEPT !.op = "cleanup_old_logs", !.days = days,
                                 !.count = Cardinality(gone), !.exc = "",
                                 !.at = logToday, !.before = logTable]
              ELSE /\ logTable' = logTable
                   /\ logRet' = [NoLogRet EXCEPT !.op = "cleanup_old_logs", !.days = days,
                                 !.count = 0, !.exc = "OperationalError",
                                 !.at = logToday, !.before = logTable]
        /\ UNCHANGED logToday

\* The orders in which a SELECT without ORDER BY may return the rows: SQL
\* leaves the order to the store.
RowOrders(rows) ==
    {o \in [1..Cardinality(rows) -> rows] :
        \A i, j \in 1..Cardinality(rows) : i # j => o[i] # o[j]}

\* OFFSET skip LIMIT limit of a result.
Page(result, skip, limit) ==
    SubSeq(result, skip + 1,
           IF skip + limit < Len(result) THEN skip + limit ELSE Len(result))

\* BaseRepository.get_all, lines 31-33:
\* db.query(self.model).offset(skip).limit(limit).all().
LogGetAll(skip, limit) ==
    /\ \E result \in RowOrders(DOMAIN logTable) :
          logRet' = [NoLogRet EXCEPT !.op = "get_all", !.skip = skip,
                                     !.limit = limit,
                                     !.rows = Page(result, skip, limit)]
    /\ UNCHANGED <<logTable, logToday>>

LogsNext ==
    \/ LogTick /\ UNCHANGED notLogs
    \/ LogCreate /\ UNCHANGED notLogs
    \/ \E skip, limit \in 0..MaxLogs : LogGetAll(skip, limit) /\ UNCHANGED notLogs
    \/ \E days \in 0..MaxDay : CleanupOldLogs(days) /\ UNCHANGED notLogs

-----------------------------------------------------------------------------
(* Two sessions in update_status: repositories.py, lines 35-43 and 97-104 *)

\* The statuses the two calls pass.
RaceStatuses == {"running", "completed"}

\* The two callers, each with a session of its own.
Sessions == {"A", "B"}

\* The DataAnalysis both calls name.
RaceKind == "analysis"

NoKw ==
    [status |-> NoStatus, progress |-> NoProgress, updated_at |-> NoTime,
     completed_at |-> NoTime]

Idle == [pc |-> "idle", id |-> 0, kw |-> NoKw, loaded |-> NoKw]

RaceInit ==
    /\ sess = [p \in Sessions |-> Idle]
    /\ raceBase = NoKw

\* No call has been made yet.
NoCallYet == \A p \in Sessions : sess[p].pc = "idle"

\* Lines 99-103: update_data is built, with the clock read at the call.
RaceCall(p, id, status, progress) ==
    /\ sess[p].pc = "idle"
    /\ Present(RaceKind, id)
    /\ \A q \in Sessions \ {p} : sess[q].pc # "idle" => sess[q].id = id
    /\ sess' = [sess EXCEPT ![p] =
                   [pc |-> "get_by_id", id |-> id,
                    kw |-> UpdateStatusData(RaceKind, status, progress, now),
                    loaded |-> NoKw]]
    /\ raceBase' = IF NoCallYet
                   THEN [c \in DOMAIN NoKw |-> store[RaceKind][id][c]]
                   ELSE raceBase
    /\ UNCHANGED repoVars

\* Line 37: db_obj = self.get_by_id(db, id), the session loads the row.
RaceGetById(p) ==
    /\ sess[p].pc = "get_by_id"
    /\ sess' = [sess EXCEPT ![p].pc = "commit",
                            ![p].loaded =
                                [c \in DOMAIN NoKw |-> store[RaceKind][sess[p].id][c]]]
    /\ UNCHANGED <<raceBase, repoVars>>

\* The columns of the UPDATE a flush emits: the attributes whose value differs
\* from the value the session loaded.
Changed(loaded, kw) ==
    {c \in DOMAIN NoKw : kw[c] # NoKw[c] /\ kw[c] # loaded[c]}

\* The row after the UPDATE of a flush at time t: the changed columns are set
\* on the row as the store holds it; updated_at, when it is not among them,
\* takes its onupdate value (models.py, line 46).
Written(row, loaded, kw, t) ==
    [c \in DOMAIN row |->
        IF c \in Changed(loaded, kw) THEN kw[c]
        ELSE IF c = "updated_at" /\ Changed(loaded, kw) # {} THEN t
        ELSE row[c]]

\* Lines 39-42: setattr for every keyword, then db.commit().
RaceCommit(p) ==
    /\ sess[p].pc = "commit"
    /\ store' = [store EXCEPT ![RaceKind][sess[p].id] =
                    Written(@, sess[p].loaded, sess[p].kw, now)]
    /\ sess' = [sess EXCEPT ![p].pc = "done"]
    /\ UNCHANGED <<raceBase, nextId, now, lastRet>>

RaceNext ==
    \/ NoCallYet /\ Tick /\ UNCHANGED raceVars /\ UNCHANGED notRace
    \/ \E p \in Sessions :
          sess[p].pc \in {"get_by_id", "commit"} /\ Tick
              /\ UNCHANGED raceVars /\ UNCHANGED notRace
    \/ \E s \in Statuses \cup {NoStatus} :
          NoCallYet /\ Create(RaceKind, s) /\ UNCHANGED raceVars /\ UNCHANGED notRace
    \/ \E p \in Sessions, i \in Ids, s \in RaceStatuses,
          pr \in Progresses \cup {NoProgress} :
          RaceCall(p, i, s, pr) /\ UNCHANGED notRace
    \/ \E p \in Sessions : RaceGetById(p) /\ UNCHANGED notRace
    \/ \E p \in Sessions : RaceCommit(p) /\ UNCHANGED notRace

-----------------------------------------------------------------------------
(* Activity summary: utils.py, get_user_activity_summary *)

\* The default of get_by_user_id's limit (repositories.py, line 80).
DefaultLimit == 100

NoSummary ==
    [op |-> "none", empty |-> FALSE, total_analyses |-> 0,
     completed_analyses |-> 0, rate |-> [num |-> 0, den |-> 1]]

SummaryInit ==
    /\ owned = [total |-> 0, completed |-> 0]
    /\ summary = NoSummary

\* data_analysis_repo.create for the user: a row with status pending.
CreateOwned ==
    /\ owned.total < MaxAnalyses
    /\ owned' = [owned EXCEPT !.total = @ + 1]
    /\ summary' = NoSummary

\* update_status(id, "completed") on one of the user's analyses.
CompleteOwned ==
    /\ owned.completed < owned.total
    /\ owned' = [owned EXCEPT !.completed = @ + 1]
    /\ summary' = NoSummary

\* Lines 80-84 of repositories.py, as called in line 307: the rows of
\* get_by_user_id(db, user_id), at most `limit` of them.
Fetched(total) == IF total < DefaultLimit THEN total ELSE DefaultLimit

\* Line 327: completed / total * 100 if total > 0 else 0, as a fraction.
SuccessRate(completed, total) ==
    IF total > 0 THEN [num |-> completed * 100, den |-> total]
                 ELSE [num |-> 0, den |-> 1]

\* get_user_activity_summary, lines 303-338: the statistics are taken over the
\* rows fetched, whichever rows of the user the store returns; every exception
\* is answered with an empty dictionary.
GetUserActivitySummary ==
    /\ \E ok \in BOOLEAN :
         IF ok
         THEN \E c \in 0..owned.completed :
                 \* the page holds c completed rows and the rest not completed
                 /\ c <= Fetched(owned.total)
                 /\ Fetched(owned.total) - c <= owned.total - owned.completed
                 /\ summary' = [op |-> "summary", empty |-> FALSE,
                                total_analyses |-> Fetched(owned.total),
                                completed_analyses |-> c,
                                rate |-> SuccessRate(c, Fetched(owned.total))]
         ELSE summary' = [NoSummary EXCEPT !.op = "summary", !.empty = TRUE]
    /\ UNCHANGED owned

SummaryNext ==
    \/ CreateOwned /\ UNCHANGED notSummary
    \/ CompleteOwned /\ UNCHANGED notSummary
    \/ GetUserActivitySummary /\ UNCHANGED notSummary

-----------------------------------------------------------------------------
(* Two concurrent invocations of run_all_migrations: migrations.py *)

\* The two invocations.
Runners == {"A", "B"}

NoRunner == [pc |-> "idle", applied |-> {}, idx |-> 0, exc |-> ""]

ConcInit ==
    /\ runners = [r \in Runners |-> NoRunner]
    /\ ledgerRows = <<>>
    /\ ledgerTable = FALSE

\* The versions that have a row in schema_migrations.
RowVersions == {ledgerRows[i] : i \in DOMAIN ledgerRows}

\* Mutant of UniqueAccepts: the version column carries no UNIQUE constraint.
UniqueDropped(v) == v \in Versions

\* Line 27: version VARCHAR(50) UNIQUE NOT NULL.
UniqueAccepts(v) == v \notin RowVersions

\* get_applied_migrations, lines 34-42, as `version in ...` sees its result.
SelectVersions(ok) == IF ok /\ ledgerTable THEN RowVersions ELSE {}

\* An exception leaves the run_all_migrations of invocation r.
ConcRaise(r, exc) ==
    runners' = [runners EXCEPT ![r].pc = "raised", ![r].exc = exc]

\* Line 139: create_migrations_table().
ConcRunAllMigrations(r) ==
    /\ runners[r].pc = "idle"
    /\ \E ok \in BOOLEAN :
         IF ok
         THEN /\ ledgerTable' = TRUE
              /\ runners' = [runners EXCEPT ![r].pc = "get_applied"]
         ELSE /\ ledgerTable' = ledgerTable
              /\ ConcRaise(r, "OperationalError")
    /\ UNCHANGED ledgerRows

\* Line 142: applied = self.get_applied_migrations().
ConcReadApplied(r) ==
    /\ runners[r].pc = "get_applied"
    /\ \E ok \in BOOLEAN :
         runners' = [runners EXCEPT ![r].pc = "loop", ![r].idx = 1,
                                    ![r].applied = SelectVersions(ok)]
    /\ UNCHANGED <<ledgerRows, ledgerTable>>

\* Lines 152-160: one turn of the loop.
ConcLoopStep(r) ==
    /\ runners[r].pc = "loop"
    /\ runners' =
         IF runners[r].idx > Len(Migrations)
         THEN [runners EXCEPT ![r].pc = "done"]
         ELSE IF Migrations[runners[r].idx] \notin runners[r].applied
         THEN [runners EXCEPT ![r].pc =
                  IF Migrations[runners[r].idx] = "001" THEN "cis_table"
                  ELSE "rm_execute"]
         ELSE [runners EXCEPT ![r].idx = @ + 1]
    /\ UNCHANGED <<ledgerRows, ledgerTable>>

\* create_initial_schema, line 67: create_migrations_table().
ConcCisCreateTable(r) ==
    /\ runners[r].pc = "cis_table"
    /\ \E ok \in BOOLEAN :
         IF ok
         THEN /\ ledgerTable' = TRUE
              /\ runners' = [runners EXCEPT ![r].pc = "cis_create_all"]
         ELSE /\ ledgerTable' = ledgerTable
              /\ ConcRaise(r, "OperationalError")
    /\ UNCHANGED ledgerRows

\* create_initial_schema, line 70: Base.metadata.create_all(bind=engine).
ConcCisCreateAll(r) ==
    /\ runners[r].pc = "cis_create_all"
    /\ \E ok \in BOOLEAN :
         IF ok
         THEN runners' = [runners EXCEPT ![r].pc = "cis_check"]
         ELSE ConcRaise(r, "OperationalError")
    /\ UNCHANGED <<ledgerRows, ledgerTable>>

\* create_initial_schema, line 76: if "001" not in self.get_applied_migrations().
ConcCisCheck(r) ==
    /\ runners[r].pc = "cis_check"
    /\ \E ok \in BOOLEAN :
         runners' =
           IF Migrations[runners[r].idx] \notin SelectVersions(ok)
           THEN [runners EXCEPT ![r].pc = "record"]
           ELSE [runners EXCEPT ![r].pc = "loop", ![r].idx = @ + 1]
    /\ UNCHANGED <<ledgerRows, ledgerTable>>

\* run_migration, lines 56-58: the change and its commit. The tables of the
\* initial schema are there whenever an invocation comes to this line: it has
\* either created them itself or read the row of "001", written after them.
ConcRunMigrationExecute(r) ==
    /\ runners[r].pc = "rm_execute"
    /\ \E ok \in BOOLEAN :
         IF ok
         THEN runners' = [runners EXCEPT ![r].pc = "record"]
         ELSE ConcRaise(r, "OperationalError")
    /\ UNCHANGED <<ledgerRows, ledgerTable>>

\* record_migration, lines 44-51: the INSERT and its commit. Nothing catches
\* what it raises but the log-and-raise of run_migration (lines 61-63).
ConcRecordMigration(r) ==
    /\ runners[r].pc = "record"
    /\ \E ok \in BOOLEAN :
         IF ~(ok /\ ledgerTable)
         THEN /\ ledgerRows' = ledgerRows
              /\ ConcRaise(r, "OperationalError")
         ELSE IF UniqueAccepts(Migrations[runners[r].idx])
         THEN /\ ledgerRows' = Append(ledgerRows, Migrations[runners[r].idx])
              /\ runners' = [runners EXCEPT ![r].pc = "loop", ![r].idx = @ + 1]
         ELSE /\ ledgerRows' = ledgerRows
              /\ ConcRaise(r, "IntegrityError")
    /\ UNCHANGED ledgerTable

ConcNext ==
    \/ \E r \in Runners : ConcRunAllMigrations(r) /\ UNCHANGED notConc
    \/ \E r \in Runners : ConcReadApplied(r) /\ UNCHANGED notConc
    \/ \E r \in Runners : ConcLoopStep(r) /\ UNCHANGED notConc
    \/ \E r \in Runners : ConcCisCreateTable(r) /\ UNCHANGED notConc
    \/ \E r \in Runners : ConcCisCreateAll(r) /\ UNCHANGED notConc
    \/ \E r \in Runners : ConcCisCheck(r) /\ UNCHANGED notConc
    \/ \E r \in Runners : ConcRunMigrationExecute(r) /\ UNCHANGED notConc
    \/ \E r \in Runners : ConcRecordMigration(r) /\ UNCHANGED notConc

-----------------------------------------------------------------------------
(* The sets of each cache key, observed: cache.py, class RedisCache *)

NoSet == [v |-> PyNone, until |-> 0, valid |-> FALSE, kept |-> FALSE]

LatestInit == latest = [k \in Keys |-> NoSet]

\* The set that has just returned: when it returned True (line 69) it is the
\* most recent set of its key, and the key lives for ttl seconds from now.
SetObserved(k, v, ttl) ==
    latest' = IF lastOp'.ret = PyTrue
              THEN [latest EXCEPT ![k] = [v |-> v, until |-> clock + ttl,
                                          valid |-> TRUE, kept |-> TRUE]]
              ELSE latest

\* The expire that has just returned: when it returned True (line 102) the
\* time-to-live of the key is no longer the one its set gave it.
ExpireObserved(k) ==
    latest' = IF lastOp'.ret = PyTrue
              THEN [latest EXCEPT ![k].kept = FALSE]
              ELSE latest

\* The values set here: a scalar, and a dict whose key is an int.
LatestValues ==
    { PyInt(0),
      Container("dict", <<Item("int", "1", "str", "a")>>) }

\* The backend answers the command or fails at it.
LatestConns == {"ok", "op_fails"}

LatestNext ==
    \/ ClockTick /\ UNCHANGED latest /\ UNCHANGED notLatest
    \/ \E k \in Keys :
          Get(k, "ok") /\ UNCHANGED latest /\ UNCHANGED notLatest
    \/ \E k \in Keys, v \in LatestValues, t \in Ttls, c \in LatestConns :
          Set(k, v, t, c) /\ SetObserved(k, v, t) /\ UNCHANGED notLatest
    \/ \E k \in Keys, c \in LatestConns :
          CacheDelete(k, c) /\ UNCHANGED latest /\ UNCHANGED notLatest
    \/ \E k \in Keys, t \in Ttls, c \in LatestConns :
          Expire(k, t, c) /\ ExpireObserved(k) /\ UNCHANGED notLatest

-----------------------------------------------------------------------------
(* The cleanup pass: utils.py, cleanup_old_data *)

\* The tables of the three steps.
CleanupTables == {"system_logs", "cache_entries", "failed_analyses"}

NoStats == [empty |-> TRUE, system_logs |-> 0, cache_entries |-> 0,
            failed_analyses |-> 0]

NoPass == [pc |-> "idle", cleanup_stats |-> NoStats, pending |-> 0,
           raised |-> FALSE, before |-> [t \in CleanupTables |-> 0]]

CleanInit ==
    /\ stale = [t \in CleanupTables |-> 0]
    /\ pass = NoPass

\* Between two passes a row grows old, a cache entry expires, an analysis fails.
GrowStale(t) ==
    /\ pass.pc \in {"idle", "returned"}
    /\ stale[t] < MaxStale
    /\ stale' = [stale EXCEPT ![t] = @ + 1]
    /\ pass' = NoPass

\* Lines 91-94: cutoff_date, cleanup_stats = {}, try.
CleanupOldData ==
    /\ pass.pc \in {"idle", "returned"}
    /\ pass' = [NoPass EXCEPT !.pc = "system_logs", !.before = stale]
    /\ UNCHANGED stale

\* Lines 96-97: system_log_repo.cleanup_old_logs(db, days): its DELETE and the
\* db.commit() it ends with (repositories.py, line 188).
CleanupLogsStep ==
    /\ pass.pc = "system_logs"
    /\ \E ok \in BOOLEAN :
         IF ok
         THEN /\ stale' = [stale EXCEPT !["system_logs"] = 0]
              /\ pass' = [pass EXCEPT !.pc = "cache_entries",
                                      !.cleanup_stats.empty = FALSE,
                                      !.cleanup_stats.system_logs = stale["system_logs"]]
         ELSE /\ stale' = stale
              /\ pass' = [pass EXCEPT !.pc = "except", !.raised = TRUE]

\* Lines 100-101: cache_entry_repo.cleanup_expired(db): its DELETE and the
\* db.commit() it ends with (repositories.py, line 217).
CleanupCacheStep ==
    /\ pass.pc = "cache_entries"
    /\ \E ok \in BOOLEAN :
         IF ok
         THEN /\ stale' = [stale EXCEPT !["cache_entries"] = 0]
              /\ pass' = [pass EXCEPT !.pc = "failed_analyses",
                                      !.cleanup_stats.cache_entries = stale["cache_entries"]]
         ELSE /\ stale' = stale
              /\ pass' = [pass EXCEPT !.pc = "except", !.raised = TRUE]

\* Lines 104-110: the DELETE of the failed analyses older than the cutoff, in
\* the transaction of the session, not committed yet.
CleanupAnalysesStep ==
    /\ pass.pc = "failed_analyses"
    /\ \E ok \in BOOLEAN :
         pass' = IF ok
                 THEN [pass EXCEPT !.pc = "commit",
                                   !.pending = stale["failed_analyses"],
                                   !.cleanup_stats.failed_analyses =
                                       stale["failed_analyses"]]
                 ELSE [pass EXCEPT !.pc = "except", !.raised = TRUE]
    /\ UNCHANGED stale

\* Line 112: db.commit() makes durable what the session has not committed
\* yet, the DELETE of the failed analyses.
CleanupCommit ==
    /\ pass.pc = "commit"
    /\ \E ok \in BOOLEAN :
         IF ok
         THEN /\ stale' = [stale EXCEPT !["failed_analyses"] = 0]
              /\ pass' = [pass EXCEPT !.pc = "returned", !.pending = 0]
         ELSE /\ stale' = stale
              /\ pass' = [pass EXCEPT !.pc = "except", !.raised = TRUE]

\* Lines 115-120: except: db.rollback(), cleanup_stats = {}; return. The
\* rollback undoes what the session has not committed.
CleanupExcept ==
    /\ pass.pc = "except"
    /\ pass' = [pass EXCEPT !.pc = "returned", !.pending = 0,
                            !.cleanup_stats = NoStats]
    /\ UNCHANGED stale

CleanNext ==
    \/ \E t \in CleanupTables : GrowStale(t) /\ UNCHANGED notClean
    \/ CleanupOldData /\ UNCHANGED notClean
    \/ CleanupLogsStep /\ UNCHANGED notClean
    \/ CleanupCacheStep /\ UNCHANGED notClean
    \/ CleanupAnalysesStep /\ UNCHANGED notClean
    \/ CleanupCommit /\ UNCHANGED notClean
    \/ CleanupExcept /\ UNCHANGED notClean

-----------------------------------------------------------------------------
(* Specifications *)

Init ==
    /\ MigInit /\ RepoInit /\ CacheInit /\ MgrInit /\ EntryInit /\ TablesInit
    /\ StartInit
    /\ HealthInit
    /\ ResetInit
    /\ CleanInit
    /\ LatestInit
    /\ ConcInit
    /\ SummaryInit
    /\ RaceInit
    /\ LogInit

\* The migration engine and the repositories do not depend on the cache: their
\* specifications start with the cache connected.
InitConnected == Init /\ client = TRUE

\* Every catalog over the tables of the data model.
InitAnyCatalog ==
    /\ MigInit /\ RepoInit /\ CacheInit /\ MgrInit /\ EntryInit /\ TablesInit
    /\ StartInit
    /\ ResetInit
    /\ CleanInit
    /\ LatestInit
    /\ ConcInit
    /\ SummaryInit
    /\ RaceInit
    /\ LogInit
    /\ client = TRUE
    /\ catalog \in SUBSET (RequiredTables \cup {MigrationsTable})
    /\ health = NoHealth

SpecMigration == InitConnected /\ [][MigNext]_vars

SpecRepository == InitConnected /\ [][RepoNext]_vars

SpecCache == Init /\ [][CacheNext]_vars

SpecApiCache == Init /\ [][ApiNext]_vars

SpecUserCache == Init /\ [][UserNext]_vars

SpecCacheEntry == InitConnected /\ [][EntryNext]_vars

SpecTables == InitConnected /\ [][TablesNext]_vars

SpecStartup == Init /\ [][StartNext]_vars

SpecSummary == InitConnected /\ [][SummaryNext]_vars

SpecRace == InitConnected /\ [][RaceNext]_vars

SpecLogs == InitConnected /\ [][LogsNext]_vars

SpecReset == InitConnected /\ [][ResetNext]_vars

\* check_database_health is a function of the catalog it finds: the check
\* starts from every catalog over the tables of the data model.
SpecHealth == InitAnyCatalog /\ [][HealthNext]_vars

SpecConcurrent == InitConnected /\ [][ConcNext]_vars

SpecLatest == InitConnected /\ [][LatestNext]_vars

SpecFrame == InitConnected /\ [][FrameNext]_vars

SpecCleanup == InitConnected /\ [][CleanNext]_vars

SpecStatus == InitConnected /\ [][StatusNext]_vars

-----------------------------------------------------------------------------
(* Properties of the migration engine *)

\* No apply is in progress: run_all_migrations is between two applies, or over.
BetweenApplies == pc \in {"idle", "get_applied", "loop", "done", "raised"}

\* C1: exactly-once migrations: over any sequence of runs, failed and retried
\* ones included, the change of a version is committed at most once.
C1_ExactlyOnce == \A v \in Versions : execCount[v] <= 1

\* C2: an apply is atomic: whenever no apply is in progress, the change of a
\* version is committed if and only if the ledger holds a row for the version.
C2_AtomicApply ==
    BetweenApplies => \A v \in Versions : (v \in effects) <=> (v \in ledger)

\* C3: a ledger row is inserted only after the change of its version has
\* committed in the same apply: every step that adds a row adds the row of the
\* version being applied, whose change this apply has committed and not failed.
C3_RowOnlyAfterCommit ==
    [][\A v \in Versions :
          (v \in ledger' /\ v \notin ledger) =>
              /\ cur = v
              /\ changeDone
              /\ ~changeFailed
              /\ v \in effects
              /\ ledger' = ledger \cup {v}]_vars

\* C3 witness: the row of 002 has just been inserted by the apply that committed
\* the change of 002.
C3_Witness ==
    /\ pc = "loop"
    /\ cur = "002"
    /\ changeDone
    /\ "002" \in ledger
    /\ "002" \notin applyLedger

\* C4: when the change step of an apply fails, the failure is raised and the
\* ledger holds no row for that version afterwards, the ledger being unchanged
\* by the failed apply.
C4_FailedChangeNoRow ==
    changeFailed => /\ pc = "raised"
                    /\ ledger = applyLedger
                    /\ cur \notin ledger

C6_HaltOnFailure ==
    failedAt > 0 => /\ pc = "raised"
                    /\ \A v \in attempted : IndexOf(v) <= failedAt

\* C6 witness: 002 failed while 003 was still pending, and 003 was not attempted.
C6_Witness ==
    /\ pc = "raised"
    /\ failedAt = 2
    /\ "003" \notin applied
    /\ "003" \notin attempted
    /\ "003" \notin ledger

-----------------------------------------------------------------------------
(* Properties of the repository layer *)

\* The position of a status in its life cycle.
Rank(status) ==
    CASE status = "pending"                   -> 0
      [] status \in {"running", "generating"} -> 1
      [] OTHER                                -> 2

Terminal(status) == status \in {"completed", "failed"}

\* C7: status transitions are monotonic forward: no repository operation moves
\* the status of a DataAnalysis or ToolGeneration record backwards, and a record
\* whose status is completed or failed never changes status again.
C7_StatusMonotonic ==
    [][\A k \in Kinds : \A i \in DOMAIN store[k] \cap DOMAIN store'[k] :
          /\ Rank(store'[k][i].status) >= Rank(store[k][i].status)
          /\ Terminal(store[k][i].status) =>
                store'[k][i].status = store[k][i].status]_vars

\* C17: update_status on a stored DataAnalysis or ToolGeneration sets status to
\* the status passed and updated_at to a time later than before; it sets
\* completed_at to the current time when the status passed is "completed" and
\* leaves it as it was otherwise; for a DataAnalysis it sets progress to the
\* progress passed and leaves it as it was when none is passed.
C17_UpdateStatus ==
    [][(lastRet'.op = "update_status" /\ Present(lastRet'.kind, lastRet'.id)) =>
          LET k == lastRet'.kind
              old == store[k][lastRet'.id]
              new == store'[k][lastRet'.id]
          IN  \A s \in Statuses, p \in Progresses \cup {NoProgress} :
                  UpdateStatus(k, lastRet'.id, s, p) =>
                      /\ new.status = s
                      /\ new.updated_at > old.updated_at
                      /\ s = "completed" => new.completed_at = now
                      /\ s # "completed" => new.completed_at = old.completed_at
                      /\ (k = "analysis" /\ p # NoProgress) => new.progress = p
                      /\ (k = "analysis" /\ p = NoProgress) =>
                            new.progress = old.progress]_vars

-----------------------------------------------------------------------------
(* Properties of the cache-aside layer *)

\* Structural equality of two values: the same scalars in the same places, a
\* tuple and a list alike as ordered lists, a dict whatever the order of its keys.
SeqKind(t) == IF t = "tuple" THEN "list" ELSE t

StructEq(x, y) ==
    /\ SeqKind(x.t) = SeqKind(y.t)
    /\ x.a = y.a
    /\ IF x.t = "dict"
       THEN {x.items[i] : i \in DOMAIN x.items} = {y.items[i] : i \in DOMAIN y.items}
       ELSE x.items = y.items

\* C8: cache round-trip and expiry: a get served by the backend that follows a
\* successful set(k, v, ttl), with nothing else done to k in between, returns a
\* value structurally equal to v when no time has passed, and returns absent once
\* ttl has elapsed since the set.
C8_RoundTripAndExpiry ==
    (lastOp.op = "get" /\ lastOp.served /\ hist.valid /\ hist.key = lastOp.key) =>
        /\ clock = hist.at => StructEq(lastOp.ret, hist.v)
        /\ clock >= hist.at + hist.ttl => lastOp.ret = PyNone

\* The safe defaults the degradation contract names: absent for get, false for
\* the boolean operations, 0 for the counting and numeric operations.
SafeDefault(op) ==
    CASE op = "get"                          -> PyNone
      [] op \in {"get_ttl", "clear_pattern"} -> PyInt(0)
      [] OTHER                               -> PyFalse

\* C9: degradation: every RedisCache operation that the backend did not answer
\* (never connected, failing at the probe or at the command) returns its safe
\* default, and no exception escapes it.
C9_Degradation ==
    (lastOp.op # "none" /\ ~lastOp.served) =>
        /\ lastOp.exc = ""
        /\ lastOp.ret = SafeDefault(lastOp.op)

\* C10: serialization failures never propagate: a set whose value json.dumps
\* cannot serialize returns false, raises nothing and leaves the cache as it
\* was; a get served by the backend whose payload json.loads cannot read returns
\* absent.
C10_SerializationFailures ==
    /\ (lastOp.op = "set" /\ lastOp.argErr # "") =>
          /\ lastOp.ret = PyFalse
          /\ lastOp.exc = ""
          /\ ~lastOp.wrote
    /\ (/\ lastOp.op = "get"
        /\ lastOp.served
        /\ Live(lastOp.key)
        /\ LoadsError(cache[lastOp.key].payload)) =>
          /\ lastOp.ret = PyNone
          /\ lastOp.exc = ""

-----------------------------------------------------------------------------
(* Properties of the cache manager *)

\* Two parameter maps hold the same name/value pairs.
SamePairs(p, q) ==
    {p.items[i] : i \in DOMAIN p.items} = {q.items[i] : i \in DOMAIN q.items}

\* C11: cache key determinism: when the latest response was cached under a key
\* derived from a parameter map q, a lookup for the same endpoint under any map
\* with the same name/value pairs as q, whatever their insertion order, derives
\* that same key and returns the entry stored under it for as long as it lives.
C11_KeyDeterminism ==
    (/\ call.op = "get_cached_api_response"
     /\ lastOp.served
     /\ hist.valid
     /\ hist.key.ns = "api") =>
        \A q \in ParamMaps :
            (SamePairs(q, call.params) /\ hist.key = ApiKey(call.endpoint, q)) =>
                /\ lastOp.key = hist.key
                /\ Live(hist.key) => lastOp.ret = Loads(cache[hist.key].payload)
                /\ ~Live(hist.key) => lastOp.ret = PyNone

\* C11 witness: a response cached under {a, b} has been returned by a lookup
\* under {b, a}.
C11_Witness ==
    /\ call.op = "get_cached_api_response"
    /\ lastOp.served
    /\ hist.valid
    /\ Len(call.params.items) = 2
    /\ call.stored # call.params
    /\ SamePairs(call.stored, call.params)
    /\ hist.key = ApiKey(call.endpoint, call.stored)
    /\ lastOp.ret = hist.v

\* C12: user-scoped invalidation: when invalidate_user_cache(u) has returned and
\* the backend answered each of its calls, the profile key user:{u} and the list
\* key user_analyses:{u} are absent, no analysis_result key remains, and the call
\* returned true if and only if it removed at least one key.
C12_UserInvalidation ==
    (call.op = "invalidate_user_cache" /\ lastOp.served) =>
        /\ ~Live(Key("user", call.user))
        /\ ~Live(Key("user_analyses", call.user))
        /\ \A k \in DOMAIN cache : k.ns # "analysis_result"
        /\ (lastOp.ret = PyTrue) <=> (call.removed # {})

\* C12 witness: invalidate_user_cache("1") removed the profile, the list and an
\* analysis result, and returned true while the profile of user 2 stays cached.
C12_Witness ==
    /\ call.op = "invalidate_user_cache"
    /\ lastOp.served
    /\ call.user = "1"
    /\ {Key("user", "1"), Key("user_analyses", "1"), Key("analysis_result", "1")}
           \subseteq call.removed
    /\ lastOp.ret = PyTrue
    /\ Live(Key("user", "2"))

-----------------------------------------------------------------------------
(* Properties of the durable cache *)

\* C13: durable cache expiry: no read of the CacheEntry repository (get_by_key,
\* get_by_id, get_all) returns a row whose expires_at is at or before the
\* current time.
C13_NoExpiredRead ==
    entryRet.op \in {"get_by_key", "get_by_id", "get_all"} =>
        \A i \in entryRet.ids : Unexpired(i, now)

\* C14: durable cache set: set_cache(key, value, ttl) at time t stores a row
\* with expires_at = t + ttl, and while that row is stored get_by_key(key)
\* returns its value at every time before t + ttl and absent from t + ttl on.
C14_SetThenGet ==
    /\ entryRet.op = "set_cache" =>
          /\ entryRet.exc = ""
          /\ entryHist.key = entryRet.key
          /\ entryHist.at = now
          /\ \E i \in entryRet.ids :
                /\ entries[i].key = entryRet.key
                /\ entries[i].value = entryHist.value
                /\ entries[i].expires_at = now + entryHist.ttl
    /\ (/\ entryRet.op = "get_by_key"
        /\ entryRet.key = entryHist.key
        /\ entryHist.id \in DOMAIN entries) =>
          /\ now < entryHist.at + entryHist.ttl =>
                /\ entryRet.ids = {entryHist.id}
                /\ entries[entryHist.id].value = entryHist.value
          /\ now >= entryHist.at + entryHist.ttl => entryRet.ids = {}

-----------------------------------------------------------------------------
(* Properties of the entity tables *)

C16_AbsentId ==
    [][(/\ tableRet'.op \in {"get_by_id", "update", "delete"}
        /\ tableRet'.id \notin DOMAIN tables[tableRet'.tab]) =>
            /\ ~tableRet'.found
            /\ tableRet'.exc = ""
            /\ tables' = tables]_vars

\* C16 witness: delete of a user id that was deleted before returned false while
\* another user is stored.
C16_Witness ==
    /\ tableRet.op = "delete"
    /\ tableRet.tab = "users"
    /\ ~tableRet.found
    /\ tableRet.exc = ""
    /\ tableRet.id < freshId["users"]
    /\ tables["users"] # <<>>

\* No two stored users share a username, and no two share an email.
NoDuplicateUsers(tabs) ==
    \A i, j \in DOMAIN tabs["users"] :
        i # j => /\ tabs["users"][i].username # tabs["users"][j].username
                 /\ tabs["users"][i].email # tabs["users"][j].email

\* A user other than id holds one of the values of fields.
TakenByOther(id, fields) ==
    \E i \in DOMAIN tables["users"] \ {id} : \E c \in DOMAIN fields :
        tables["users"][i][c] = fields[c]

\* C18: user uniqueness: every step leaves no two users with the same username
\* or the same email; a create or an update of a user that passes a username or
\* an email another user holds ends with IntegrityError raised to the caller and
\* leaves the tables as they were.
C18_UserUniqueness ==
    [][/\ NoDuplicateUsers(tables')
       /\ (tableRet'.tab = "users" /\ tableRet'.op = "create") =>
             \A fields \in CreateFields("users") :
                 (TakenByOther(NullRef, fields) /\ InsertRow("users", fields)) =>
                     /\ tableRet'.exc = "IntegrityError"
                     /\ tables' = tables
       /\ (tableRet'.tab = "users" /\ tableRet'.op = "update") =>
             \A fields \in UpdateFieldsOf("users") :
                 (/\ Found("users", tableRet'.id)
                  /\ TakenByOther(tableRet'.id, fields)
                  /\ UpdateRow("users", tableRet'.id, fields)) =>
                     /\ tableRet'.exc = "IntegrityError"
                     /\ tables' = tables]_vars

\* C18 witness: with two users stored, an update of the second to the username
\* of the first has been refused.
C18_Witness ==
    /\ Cardinality(DOMAIN tables["users"]) = 2
    /\ tableRet.tab = "users"
    /\ tableRet.op = "update"
    /\ tableRet.id = 2
    /\ tableRet.exc = "IntegrityError"

\* Every DataAnalysis and ToolGeneration refers to a stored User, and every
\* AnalysisFile to a stored DataAnalysis.
ReferencesExist(tabs) ==
    /\ \A i \in DOMAIN tabs["data_analyses"] :
          tabs["data_analyses"][i].user_id \in DOMAIN tabs["users"]
    /\ \A i \in DOMAIN tabs["tool_generations"] :
          tabs["tool_generations"][i].user_id \in DOMAIN tabs["users"]
    /\ \A i \in DOMAIN tabs["analysis_files"] :
          tabs["analysis_files"][i].data_analysis_id \in DOMAIN tabs["data_analyses"]

\* The row id of tab is referred to by a row of another table.
Referenced(tab, id) ==
    \E t \in Tables : ParentOf(t) = tab /\
        \E i \in DOMAIN tables[t] : tables[t][i][FkColumn(t)] = id

\* C19: referential integrity: every step leaves every reference naming a stored
\* row of its parent table; a create or an update whose reference names no
\* stored row, and a delete of a row that is referred to, end with
\* IntegrityError raised by the store and leave the tables as they were.
C19_ReferentialIntegrity ==
    [][/\ ReferencesExist(tables')
       /\ (tableRet'.tab \in Tables \ {"users"} /\ tableRet'.op = "create") =>
             \A fields \in CreateFields(tableRet'.tab) :
                 (/\ fields[FkColumn(tableRet'.tab)]
                        \notin DOMAIN tables[ParentOf(tableRet'.tab)]
                  /\ InsertRow(tableRet'.tab, fields)) =>
                     /\ tableRet'.exc = "IntegrityError"
                     /\ tables' = tables
       /\ (tableRet'.tab \in Tables \ {"users"} /\ tableRet'.op = "update") =>
             \A fields \in UpdateFieldsOf(tableRet'.tab) :
                 (/\ Found(tableRet'.tab, tableRet'.id)
                  /\ fields[FkColumn(tableRet'.tab)]
                        \notin DOMAIN tables[ParentOf(tableRet'.tab)]
                  /\ UpdateRow(tableRet'.tab, tableRet'.id, fields)) =>
                     /\ tableRet'.exc = "IntegrityError"
                     /\ tables' = tables
       /\ (/\ tableRet'.op = "delete"
           /\ Found(tableRet'.tab, tableRet'.id)
           /\ Referenced(tableRet'.tab, tableRet'.id)) =>
               /\ tableRet'.exc = "IntegrityError"
               /\ tables' = tables]_vars

\* C19 witness: the delete of a user who owns a DataAnalysis that owns an
\* AnalysisFile has been refused.
C19_Witness ==
    /\ tableRet.op = "delete"
    /\ tableRet.tab = "users"
    /\ tableRet.exc = "IntegrityError"
    /\ \E i \in DOMAIN tables["data_analyses"] :
          /\ tables["data_analyses"][i].user_id = tableRet.id
          /\ \E f \in DOMAIN tables["analysis_files"] :
                tables["analysis_files"][f].data_analysis_id = i

\* C30. The ledger is a prefix of the fixed order: in every state reachable
\* through run_all_migrations invocations, failed and retried ones included, a
\* ledger that holds a row for a version holds a row for every version earlier
\* in the order 001, 002, 003.
C30_LedgerPrefix ==
    \A v \in ledger : \A w \in Versions : VersionBefore(w, v) => w \in ledger

\* C30 witness: a run has failed at its third migration and left the rows of
\* the first two.
C30_Witness ==
    /\ pc = "raised"
    /\ failedAt = 3
    /\ ledger = {"001", "002"}

C23_Bootstrap == ~tableExists /\ pc = "raised"

\* C24. reset_database drops all tables and recreates them: when it completes
\* on a database that had been fully migrated, every entity table exists again
\* (check_database_health on the reachable store reports healthy) and the
\* schema is the one a fresh run of all migrations produces.
C24_ResetRecreates ==
    (reset.pc = "completed" /\ reset.wasMigrated) =>
        /\ CheckDatabaseHealth(TRUE) = "healthy"
        /\ effects = Versions

-----------------------------------------------------------------------------
(* Properties of two sessions in update_status *)

\* The record after a call with keywords kw that runs alone on the record
\* `row` and commits at time t.
Alone(row, kw, t) == Written(row, [c \in DOMAIN NoKw |-> row[c]], kw, t)

\* The records session p's call, then session q's call leave, each run alone,
\* whenever they commit.
Serial(row, p, q) ==
    {Alone(Alone(row, sess[p].kw, t1), sess[q].kw, t2) :
        t1 \in 0..MaxTime, t2 \in 0..MaxTime}

\* The columns update_status writes.
StatusColumns == {"status", "progress", "updated_at", "completed_at"}

\* C27. update_status is last-writer-wins: when two update_status calls on the
\* same record have run concurrently and both have completed, the stored record
\* (status, progress, updated_at, completed_at) equals the result of applying
\* the two calls in one of the two serial orders.
C27_LastWriterWins ==
    (\A p \in Sessions : sess[p].pc = "done") =>
        LET row == store[RaceKind][sess["A"].id]
            base == [c \in DOMAIN row |->
                        IF c \in StatusColumns THEN raceBase[c] ELSE row[c]]
        IN  \/ row \in Serial(base, "A", "B")
            \/ row \in Serial(base, "B", "A")

-----------------------------------------------------------------------------
(* Properties of the pattern sweep *)

\* C29. clear_pattern(pattern), with the backend reachable and no concurrent
\* writer, removes every key that matches the pattern, leaves every
\* non-matching key unchanged, and returns the number of keys it removed (0
\* when none match).
C29_ClearPattern ==
    [][(call'.op = "clear_pattern" /\ client) =>
          \A p \in SweepPatterns :
              Sweep(p, "ok") =>
                  LET matching == {k \in DOMAIN cache : Matches(p, k)}
                  IN  /\ DOMAIN cache' = DOMAIN cache \ matching
                      /\ \A k \in DOMAIN cache' : cache'[k] = cache[k]
                      /\ lastOp'.ret = PyInt(Cardinality(matching))]_vars

\* C29 witness: a sweep has removed two keys and left a third.
C29_Witness ==
    /\ call.op = "clear_pattern"
    /\ lastOp.served
    /\ lastOp.ret = PyInt(2)
    /\ Cardinality(call.removed) = 2
    /\ cache # <<>>

\* C29, the empty sweep: no key matched and 0 was returned.
C29_NoneMatch ==
    /\ call.op = "clear_pattern"
    /\ lastOp.served
    /\ lastOp.ret = PyInt(0)
    /\ cache # <<>>

-----------------------------------------------------------------------------
(* Properties of the activity summary *)

\* C28. The per-user completion rate get_user_activity_summary reports (as a
\* percentage) equals completed/total over that user's analyses, is zero when
\* the user has no analyses, and its computation never raises a division
\* fault: the fraction reported never has a zero denominator.
C28_CompletionRate ==
    (summary.op = "summary" /\ ~summary.empty) =>
        /\ summary.rate.den # 0
        /\ owned.total = 0 => summary.rate.num = 0
        /\ owned.total > 0 =>
              summary.rate.num * owned.total
                  = 100 * owned.completed * summary.rate.den

-----------------------------------------------------------------------------
(* Properties of the system logs *)

\* C25. cleanup_old_logs(days) deletes exactly the SystemLog rows whose
\* created_at is earlier than now minus days, leaves every other log row as it
\* was, and returns the number of rows it deleted.
C25_CleanupOldLogs ==
    (logRet.op = "cleanup_old_logs" /\ logRet.exc = "") =>
        LET before == logRet.before
            old == {i \in DOMAIN before :
                        before[i].created_at < logRet.at - logRet.days}
        IN  /\ DOMAIN logTable = DOMAIN before \ old
            /\ \A i \in DOMAIN logTable : logTable[i] = before[i]
            /\ logRet.count = Cardinality(old)

\* C25 witness: a cleanup has deleted one row and kept another, one of them
\* dated on the cutoff day.
C25_Witness ==
    /\ logRet.op = "cleanup_old_logs"
    /\ logRet.exc = ""
    /\ logRet.count = 1
    /\ \E i \in DOMAIN logTable :
          logTable[i].created_at = logRet.at - logRet.days
    /\ Cardinality(DOMAIN logRet.before) = 2

RECURSIVE CreationOrder(_)
\* The rows in the order of their creation.
CreationOrder(rows) ==
    IF rows = {} THEN <<>>
    ELSE LET first == CHOOSE i \in rows : \A j \in rows : i <= j
         IN  <<first>> \o CreationOrder(rows \ {first})

\* C26. get_all(skip, limit) returns the stored records in creation order: the
\* result is the contiguous slice of the creation-ordered sequence that starts
\* at position skip and holds at most limit records.
C26_GetAllInCreationOrder ==
    logRet.op = "get_all" =>
        logRet.rows = Page(CreationOrder(DOMAIN logTable), logRet.skip, logRet.limit)

-----------------------------------------------------------------------------
(* Properties of the initialization script *)

\* The run of setup_database that init_database called has applied every
\* migration and none of its applies raised.
MigrationsCompleted ==
    /\ pc = "done"
    /\ failedAt = 0
    /\ Versions \subseteq ledger
    /\ Versions \subseteq effects

\* C20. Startup ordering: init_database issues its repository write (the
\* initialization row of system_logs) and returns success only after the
\* connection check has passed, every pending migration has completed without
\* error and the health check has returned healthy; when the connection check
\* fails or a migration raises, it returns failure and has issued no
\* repository write: system_logs holds the rows it held when the run began.
C20_StartupOrdering ==
    /\ (boot.issued \/ logRows # boot.startRows \/ boot.result = "success") =>
          /\ boot.connected
          /\ MigrationsCompleted
          /\ boot.healthy
    /\ (boot.pc = "returned" /\ (~boot.connected \/ pc = "raised")) =>
          /\ boot.result = "failure"
          /\ ~boot.issued
          /\ logRows = boot.startRows

\* C20 witness: a second run of the script has returned success with its row
\* written to system_logs.
C20_Witness ==
    /\ boot.run = 2
    /\ boot.result = "success"
    /\ boot.issued
    /\ logRows = boot.startRows + 1

\* C20, the failing side: a run has returned failure because a migration raised.
C20_FailureReached ==
    /\ boot.pc = "returned"
    /\ boot.connected
    /\ pc = "raised"
    /\ failedAt > 0

\* C21. Cache unavailability is not fatal at startup: a run of init_database
\* whose connection check passed, whose migrations completed and whose health
\* check returned healthy returns success, whether the cache backend answered
\* the test of its connection or not.
C21_CacheNotFatal ==
    (/\ boot.pc = "returned"
     /\ boot.connected
     /\ pc = "done"
     /\ boot.healthy) => boot.result = "success"

\* C21 witness: a run has returned success although the cache did not answer.
C21_Witness ==
    /\ boot.pc = "returned"
    /\ boot.connected
    /\ pc = "done"
    /\ boot.healthy
    /\ ~boot.cacheUp
    /\ boot.result = "success"

-----------------------------------------------------------------------------
(* Properties of the health check *)

\* The tables of the data model: the six entities and the ledger of migrations.
EntityTables == RequiredTables \cup {MigrationsTable}

\* C22. check_database_health, when the store is reachable, never raises: it
\* returns healthy if and only if every entity table of the data model (the six
\* entities and the migration ledger) is present, and otherwise returns
\* unhealthy with the names of the missing tables and the observed table list.
C22_HealthReport ==
    (health.op = "check" /\ health.reachable) =>
        /\ ~health.raised
        /\ health.status = "healthy" <=> EntityTables \subseteq catalog
        /\ health.status # "healthy" =>
              /\ health.status = "unhealthy"
              /\ health.missing = EntityTables \ catalog
              /\ health.tables = catalog

-----------------------------------------------------------------------------
(* Properties of concurrent migration runs *)

\* C31: under any interleaving of two invocations of run_all_migrations on one
\* store, schema_migrations never holds two rows of one version, and an
\* invocation that comes to insert a version which already has a row leaves the
\* ledger as it is and ends with an exception.
C31_NoDuplicateVersion ==
    [][/\ \A i, j \in DOMAIN ledgerRows' :
             ledgerRows'[i] = ledgerRows'[j] => i = j
       /\ \A r \in Runners :
             (/\ runners[r].pc = "record"
              /\ runners'[r] # runners[r]
              /\ \E i \in DOMAIN ledgerRows :
                    ledgerRows[i] = Migrations[runners[r].idx])
             => /\ ledgerRows' = ledgerRows
                /\ runners'[r].pc = "raised"]_vars

\* One invocation has had its INSERT rejected for a version the other recorded.
C31_Witness ==
    \E r \in Runners :
       /\ runners[r].pc = "raised"
       /\ runners[r].exc = "IntegrityError"
       /\ \E i \in DOMAIN ledgerRows : ledgerRows[i] = Migrations[runners[r].idx]
       /\ \A q \in Runners \ {r} : runners[q].pc \notin {"idle", "raised"}

-----------------------------------------------------------------------------
(* Properties of the sets of a cache key *)

\* C32: latest write wins: after any sequence of set, delete and expire calls, a
\* get returns absent or a value structurally equal to the value of the most
\* recent set of its key that returned True, and while no expire has succeeded
\* on the key since that set, the key expires when the time-to-live of that set
\* has elapsed, whatever the earlier sets gave it.
C32_LatestWriteWins ==
    /\ (lastOp.op = "get" /\ lastOp.ret # PyNone) =>
          /\ latest[lastOp.key].valid
          /\ StructEq(lastOp.ret, latest[lastOp.key].v)
    /\ \A k \in Keys :
          (Live(k) /\ latest[k].kept) => cache[k].expires_at = latest[k].until

-----------------------------------------------------------------------------
(* Frame of the user invalidation *)

\* The keys invalidate_user_cache(u) is not about: the profile and the list of
\* every other user, the tool generations, the system statistics, the API
\* responses.
OutsideUser(u) ==
    {k \in DOMAIN cache :
        \/ k.ns \in {"user", "user_analyses"} /\ k.id # u
        \/ k.ns \in {"tool_generation", "system_stats", "api"}}

\* C33: frame of user invalidation: a call of invalidate_user_cache(u) leaves
\* every entry outside its three patterns as it was, payload and expiry: the
\* user and user_analyses keys of every other user, every tool_generation key,
\* the system_stats key and every api key; and it adds no key.
C33_InvalidationFrame ==
    [][call'.op = "invalidate_user_cache" =>
          /\ \A k \in OutsideUser(call'.user) :
                k \in DOMAIN cache' /\ cache'[k] = cache[k]
          /\ DOMAIN cache' \subseteq DOMAIN cache]_vars

\* C33 witness: invalidate_user_cache("1") has removed keys of user 1 while an
\* entry of each kind outside its patterns is still cached.
C33_Witness ==
    /\ call.op = "invalidate_user_cache"
    /\ call.user = "1"
    /\ lastOp.served
    /\ Key("user", "1") \in call.removed
    /\ Live(Key("user", "2"))
    /\ Live(Key("user_analyses", "2"))
    /\ Live(Key("tool_generation", "1"))
    /\ Live(Key("system_stats", ""))
    /\ \E k \in DOMAIN cache : k.ns = "api"

-----------------------------------------------------------------------------
(* The durable cache over an expired row *)

\* C34: a set_cache(key, value, ttl) made while no unexpired row exists for the
\* key, and so also when the only row of the key has expired and cleanup_expired
\* has not removed it yet, raises nothing and stores a row with the new value;
\* with a positive ttl that row is the one get_by_key(key) selects next.
C34_SetOverExpired ==
    [][(/\ entryRet'.op = "set_cache"
        /\ \A i \in RowsWithKey(entryRet'.key) : ~Unexpired(i, now))
       => /\ entryRet'.exc = ""
          /\ \E i \in entryRet'.ids :
                /\ i \in DOMAIN entries'
                /\ entries'[i].key = entryRet'.key
                /\ entries'[i].value = JsonColumn(entryHist'.value)
          /\ entryHist'.ttl > 0 =>
                {i \in DOMAIN entries' : /\ entries'[i].key = entryRet'.key
                                         /\ entries'[i].expires_at > now}
                    = entryRet'.ids]_vars

-----------------------------------------------------------------------------
(* The expiry boundary of the durable cache *)

\* C35: get_by_key and cleanup_expired agree on the expiry boundary. A call of
\* cleanup_expired deletes exactly the rows whose expires_at is at or before
\* the current time, which are exactly the rows get_by_key would not return at
\* that instant, leaves the other rows as they were and returns the number of
\* rows it deleted; a call of get_by_key returns exactly the rows of its key
\* whose expires_at is later than the current time, which are exactly the rows
\* cleanup_expired would leave.
C35_ExpiryBoundary ==
    [][/\ entryRet'.op = "cleanup_expired" =>
             LET gone == DOMAIN entries \ DOMAIN entries'
             IN  /\ entryRet'.count = Cardinality(gone)
                 /\ \A i \in gone : entries[i].expires_at <= now
                 /\ \A i \in DOMAIN entries :
                       (i \in gone) <=> ~Unexpired(i, now)
                 /\ \A i \in DOMAIN entries' :
                       i \in DOMAIN entries /\ entries'[i] = entries[i]
       /\ entryRet'.op = "get_by_key" =>
             /\ entries' = entries
             /\ \A i \in DOMAIN entries :
                   (i \in entryRet'.ids) <=>
                       /\ entries[i].key = entryRet'.key
                       /\ ~(entries[i].expires_at <= now)]_vars

\* C35 witness: cleanup_expired has deleted the row of the latest set_cache
\* at the very instant it expired, and has left a row that is still live.
C35_Witness ==
    /\ entryRet.op = "cleanup_expired"
    /\ entryRet.count >= 1
    /\ entryHist.id # 0
    /\ entryHist.id \notin DOMAIN entries
    /\ entryHist.at + entryHist.ttl = now
    /\ entryHist.ttl > 0
    /\ \E i \in DOMAIN entries : entries[i].expires_at > now

-----------------------------------------------------------------------------
(* Properties of the cleanup pass *)

\* C36: cleanup_old_data is all-or-nothing: when a pass in which one of the
\* steps failed has returned, its result is empty and the store holds every
\* row it held when the pass began; when a pass has returned a result that is
\* not empty, the rows of all three filters are gone from the store.
C36_AllOrNothing ==
    pass.pc = "returned" =>
        /\ pass.raised =>
              /\ pass.cleanup_stats.empty
              /\ stale = pass.before
        /\ ~pass.cleanup_stats.empty =>
              \A t \in DOMAIN stale : stale[t] = 0

-----------------------------------------------------------------------------
(* Completion stamp of the records *)

\* C37: in every state reached through create and update_status, a
\* DataAnalysis or ToolGeneration record has completed_at set if and only if
\* its status is "completed".
C37_CompletedAtIffCompleted ==
    \A k \in Kinds : \A i \in DOMAIN store[k] :
        (store[k][i].completed_at # NoTime) <=> (store[k][i].status = "completed")

====
